---- MODULE Spec2Model ----
(***************************************************************************)
(* Expression engine of the companion bot: TransitionController,           *)
(* EmotionDisplay (render loop, command queue, gesture classification and   *)
(* effect arbitration) and the render decision of DisplayRenderer.          *)
(*                                                                         *)
(* Units: time in steps of 0.05 s (so 0.1 s = 2, 0.35 s = 7, 0.6 s = 12),   *)
(* distances in pixels, alpha in thousandths (1.0 = 1000).                  *)
(* time.time() is the variable now; the reads made while one event or one   *)
(* update is handled fall in the same time step.                            *)
(***************************************************************************)
EXTENDS Integers, Sequences, FiniteSets, TLC

\* ------------------------------------------------------------------ bounds
Epoch == 100
Horizon == 3
GestureHorizon == 5
MaxPettingCmds == 1
MaxEvents == 2
MaxQueue == 2
MaxCmds == 2
MaxPresses == 2
MaxDt == 6
MaxSteps == 4
MaxTickTime == 2
MaxProducerCmds == 2
MaxCallbackCmds == 3
MaxTriggers == 2
ArbitrateHorizon == 80
LifeHorizon == 2

\* ------------------------------------------------------- program constants
AlphaOne == 1000
MinDuration == 2
DefaultDuration == 10
ToggleInterval == 3
GestureCooldown == 16
EffectQueueCooldown == 8
EffectBusyWindow == 24
EffectEmotionDuration == 8
DoubleTapWindow == 7
LongPressTime == 12
TapDist == 20
DragDist == 60
CircleDist == 140
CircleReturn == 45
LongBusyWindow == 80     \* an effect_busy_window of 4.0 s
LongEffectCooldown == 60 \* an effect_cooldown of 3.0 s
touch_enabled == TRUE

None == "None"
NoPos == <<>>

Max(a, b) == IF a >= b THEN a ELSE b
Min(a, b) == IF a <= b THEN a ELSE b
Abs(a) == IF a >= 0 THEN a ELSE 0 - a

\* keys of DEFAULT_EMOTION_PRESETS (two of the twelve), and the names a
\* caller may pass to set_emotion: the presets and one unknown name
PresetKeys == {"happy", "sad"}
EmotionNames == PresetKeys \cup {"bogus"}
Durations == {0, 3}
InitialEmotionUnknown == "neutral"
InitialEmotion == "happy"

VARIABLES
  now,               \* time.time()
  is_running,        \* EmotionDisplay.is_running
  pc,                \* position of the display thread in _display_loop
  last_time,         \* local last_time of _display_loop
  delta_time,        \* local delta_time, from its assignment to its last use in _render_frame
  command_queue,     \* EmotionDisplay.command_queue
  state,             \* EmotionDisplay.state (DisplayState)
  transition,        \* EmotionDisplay.transition (TransitionController)
  cfg,               \* what the constructor loaded: renderer mode, sprites, callback
  rendered,          \* the call made to the renderer by _render_frame in this iteration
  events,            \* pygame's event queue
  batch,             \* the list returned by pygame.event.get(), being iterated
  touch,             \* _touch_start_pos, _touch_down_pos, _touch_down_time, _drag_distance
  pending_tap_time,  \* EmotionDisplay.pending_tap_time
  last_effect_time,  \* EmotionDisplay._last_effect_time
  held,              \* environment: the pointer is down
  gesture_log,       \* history: gestures resolved, in order
  tap_ups,           \* history: time.time() at each pointer-up taken by the tap branch
  dispatch_log,      \* history: effects dispatched
  applied,           \* history: <<emotion, skipped>> of the SET_EMOTION commands applied
  budget,            \* history: commands and presses issued so far
  runs,              \* two independent runs of the gesture logic over one event trace
  probe,             \* inputs and result of a function applied on its own
  qlog,              \* history: the threads that call the setters, the commands put (and by whom) and taken
  cb_threads,        \* the threads started for the effect callback, each at its position
  life,              \* start/stop/cleanup: the exit callback, the controlling thread, the renderer
  lock_log           \* history: what the loop's last step did with state_lock, in program order

vars == <<now, is_running, pc, last_time, delta_time, command_queue, state,
          transition, cfg, rendered, events, batch, touch, pending_tap_time,
          last_effect_time, held, gesture_log, tap_ups, dispatch_log, applied,
          budget, runs, probe, qlog, cb_threads, life, lock_log>>

\* --------------------------------------------------- TransitionController
TransitionInit ==
  [is_active |-> FALSE, from_emotion |-> None, to_emotion |-> None,
   duration |-> DefaultDuration, elapsed_time |-> 0, alpha |-> 0]

\* start_transition storing the duration as requested
start_transition_as_requested(tr, from_emotion, to_emotion, duration) ==
  [is_active |-> TRUE, from_emotion |-> from_emotion, to_emotion |-> to_emotion,
   duration |-> duration, elapsed_time |-> 0, alpha |-> 0]

start_transition(tr, from_emotion, to_emotion, duration) ==
  [is_active |-> TRUE, from_emotion |-> from_emotion, to_emotion |-> to_emotion,
   duration |-> Max(MinDuration, duration), elapsed_time |-> 0, alpha |-> 0]

\* alpha = min(1.0, elapsed / duration); the quotient is >= 1.0 exactly when
\* elapsed >= duration, which the floor of the fixed-point quotient keeps
update_late_commit(tr, dt) ==
  IF ~tr.is_active THEN tr
  ELSE LET e == tr.elapsed_time + dt
           a == Min(AlphaOne, (e * AlphaOne) \div tr.duration)
       IN IF tr.alpha >= AlphaOne
          THEN [tr EXCEPT !.elapsed_time = e, !.alpha = a, !.is_active = FALSE,
                          !.from_emotion = tr.to_emotion]
          ELSE [tr EXCEPT !.elapsed_time = e, !.alpha = a]

update(tr, dt) ==
  IF ~tr.is_active THEN tr
  ELSE LET e == tr.elapsed_time + dt
           a == Min(AlphaOne, (e * AlphaOne) \div tr.duration)
       IN IF a >= AlphaOne
          THEN [tr EXCEPT !.elapsed_time = e, !.alpha = a, !.is_active = FALSE,
                          !.from_emotion = tr.to_emotion]
          ELSE [tr EXCEPT !.elapsed_time = e, !.alpha = a]

\* the tuple update() returns, given the controller before the call
update_result(tr, dt) ==
  IF ~tr.is_active
  THEN << IF tr.from_emotion = None THEN "happy" ELSE tr.from_emotion,
          IF tr.to_emotion = None THEN "happy" ELSE tr.to_emotion,
          AlphaOne >>
  ELSE LET t2 == update(tr, dt) IN << t2.from_emotion, t2.to_emotion, t2.alpha >>

is_transitioning(tr) == tr.is_active

\* ------------------------------------------------------------ DisplayState
DisplayStateInit ==
  [is_listening |-> FALSE, is_speaking |-> FALSE,
   current_emotion |-> InitialEmotion, target_emotion |-> None,
   speaking_frame_toggle |-> FALSE, last_toggle_time |-> 0,
   speaking_level_target |-> 0,
   last_gesture_time |-> 0, gesture_busy_until |-> 0, petting_active |-> FALSE]

\* ---------------------------------------------------------------- commands
Cmd(type, emotion, duration, active, has_level, level, effect) ==
  [duration |-> duration, type |-> type, emotion |-> emotion, active |-> active,
   has_level |-> has_level, level |-> level, effect |-> effect]

SetEmotionCmd(emotion, duration) == Cmd("SET_EMOTION", emotion, duration, FALSE, FALSE, 0, None)
SetListeningCmd(active) == Cmd("SET_LISTENING", None, 0, active, FALSE, 0, None)
SetSpeakingCmd(active, has_level, level) == Cmd("SET_SPEAKING", None, 0, active, has_level, level, None)
SetPettingCmd(active) == Cmd("SET_PETTING", None, 0, active, FALSE, 0, None)
ApplyEffectCmd(effect) == Cmd("APPLY_EFFECT", None, 0, FALSE, FALSE, 0, effect)

\* _start_emotion_transition: the pair (state, transition) after the call;
\* skipped: the "Already showing" early return was taken
start_emotion_transition_always(st, tr, emotion, duration) ==
  [state |-> [st EXCEPT !.target_emotion = emotion],
   transition |-> start_transition(tr, st.current_emotion, emotion, duration),
   skipped |-> FALSE]

\* _start_emotion_transition leaving a transition to the same target running
start_emotion_transition_keep_same_target(st, tr, emotion, duration) ==
  IF emotion = st.current_emotion /\ ~is_transitioning(tr)
  THEN [state |-> st, transition |-> tr, skipped |-> TRUE]
  ELSE IF is_transitioning(tr) /\ tr.to_emotion = emotion
  THEN [state |-> st, transition |-> tr, skipped |-> FALSE]
  ELSE [state |-> [st EXCEPT !.target_emotion = emotion],
        transition |-> start_transition(tr, st.current_emotion, emotion, duration),
        skipped |-> FALSE]

start_emotion_transition(st, tr, emotion, duration) ==
  IF emotion = st.current_emotion /\ ~is_transitioning(tr)
  THEN [state |-> st, transition |-> tr, skipped |-> TRUE]
  ELSE [state |-> [st EXCEPT !.target_emotion = emotion],
        transition |-> start_transition(tr, st.current_emotion, emotion, duration),
        skipped |-> FALSE]

execute_command_petting_latched(st, tr, cmd) ==
  CASE cmd.type = "SET_EMOTION" ->
         start_emotion_transition(st, tr, cmd.emotion, cmd.duration)
    [] cmd.type = "SET_LISTENING" ->
         [state |-> [st EXCEPT !.is_listening = cmd.active], transition |-> tr]
    [] cmd.type = "SET_SPEAKING" ->
         LET level == IF cmd.has_level THEN cmd.level
                      ELSE IF cmd.active THEN AlphaOne ELSE 0
         IN [state |-> [st EXCEPT
                          !.is_speaking = cmd.active,
                          !.speaking_level_target = Max(0, Min(AlphaOne, level)),
                          !.speaking_frame_toggle =
                             IF cmd.active THEN st.speaking_frame_toggle ELSE FALSE],
             transition |-> tr]
    [] cmd.type = "SET_PETTING" ->
         [state |-> [st EXCEPT !.petting_active = @ \/ cmd.active], transition |-> tr]
    [] OTHER -> [state |-> st, transition |-> tr]

\* _execute_command storing the level of SET_SPEAKING as given
execute_command_level_as_given(st, tr, cmd) ==
  CASE cmd.type = "SET_EMOTION" ->
         start_emotion_transition(st, tr, cmd.emotion, cmd.duration)
    [] cmd.type = "SET_LISTENING" ->
         [state |-> [st EXCEPT !.is_listening = cmd.active], transition |-> tr]
    [] cmd.type = "SET_SPEAKING" ->
         LET level == IF cmd.has_level THEN cmd.level
                      ELSE IF cmd.active THEN AlphaOne ELSE 0
         IN [state |-> [st EXCEPT
                          !.is_speaking = cmd.active,
                          !.speaking_level_target = level,
                          !.speaking_frame_toggle =
                             IF cmd.active THEN st.speaking_frame_toggle ELSE FALSE],
             transition |-> tr]
    [] cmd.type = "APPLY_EFFECT" -> [state |-> st, transition |-> tr]
    [] cmd.type = "SET_PETTING" ->
         [state |-> [st EXCEPT !.petting_active = cmd.active], transition |-> tr]
    [] OTHER -> [state |-> st, transition |-> tr]

\* _execute_command with SET_PETTING False also ending the busy window
execute_command_petting_resets_busy(st, tr, cmd) ==
  CASE cmd.type = "SET_EMOTION" ->
         start_emotion_transition(st, tr, cmd.emotion, cmd.duration)
    [] cmd.type = "SET_LISTENING" ->
         [state |-> [st EXCEPT !.is_listening = cmd.active], transition |-> tr]
    [] cmd.type = "SET_SPEAKING" ->
         LET level == IF cmd.has_level THEN cmd.level
                      ELSE IF cmd.active THEN AlphaOne ELSE 0
         IN [state |-> [st EXCEPT
                          !.is_speaking = cmd.active,
                          !.speaking_level_target = Max(0, Min(AlphaOne, level)),
                          !.speaking_frame_toggle =
                             IF cmd.active THEN st.speaking_frame_toggle ELSE FALSE],
             transition |-> tr]
    [] cmd.type = "APPLY_EFFECT" -> [state |-> st, transition |-> tr]
    [] cmd.type = "SET_PETTING" ->
         [state |-> [st EXCEPT !.petting_active = cmd.active,
                               !.gesture_busy_until = IF cmd.active THEN @ ELSE 0],
          transition |-> tr]
    [] OTHER -> [state |-> st, transition |-> tr]

\* _execute_command: the pair (state, transition) after applying cmd.
\* _apply_effect only logs.
execute_command(st, tr, cmd) ==
  CASE cmd.type = "SET_EMOTION" ->
         start_emotion_transition(st, tr, cmd.emotion, cmd.duration)
    [] cmd.type = "SET_LISTENING" ->
         [state |-> [st EXCEPT !.is_listening = cmd.active], transition |-> tr]
    [] cmd.type = "SET_SPEAKING" ->
         LET level == IF cmd.has_level THEN cmd.level
                      ELSE IF cmd.active THEN AlphaOne ELSE 0
         IN [state |-> [st EXCEPT
                          !.is_speaking = cmd.active,
                          !.speaking_level_target = Max(0, Min(AlphaOne, level)),
                          !.speaking_frame_toggle =
                             IF cmd.active THEN st.speaking_frame_toggle ELSE FALSE],
             transition |-> tr]
    [] cmd.type = "APPLY_EFFECT" -> [state |-> st, transition |-> tr]
    [] cmd.type = "SET_PETTING" ->
         [state |-> [st EXCEPT !.petting_active = cmd.active], transition |-> tr]
    [] OTHER -> [state |-> st, transition |-> tr]

\* ---------------------------------------------------------------- renderer
Rendered(call, a, b, alpha, speaking, listening) ==
  [a |-> a, b |-> b, alpha |-> alpha, call |-> call, speaking |-> speaking,
   listening |-> listening]

NothingRendered == Rendered("none", None, None, 0, "none", FALSE)

\* get_emotion_frame without the substitution of "happy"
get_emotion_frame_no_fallback(c, emotion) ==
  IF emotion \in c.emotion_images THEN emotion ELSE None

\* DisplayRenderer.get_emotion_frame: the name of the sprite pair used, or None
get_emotion_frame(c, emotion) ==
  IF emotion \in c.emotion_images THEN emotion
  ELSE IF "happy" \in c.emotion_images THEN "happy" ELSE None

\* EmotionDisplay._get_emotion_params: the preset key whose parameters are used
get_emotion_params(emotion) ==
  IF emotion \in PresetKeys THEN emotion ELSE "happy"

SpriteStatic(c, st) ==
  LET frame == get_emotion_frame(c, st.current_emotion)
  IN IF frame # None
     THEN Rendered("render_frame", frame, None, 0, "base", FALSE)
     ELSE NothingRendered

SpriteTransition(c, st, tr) ==
  LET r == update_result(tr, 0)
      from_frame == get_emotion_frame(c, r[1])
      to_frame == get_emotion_frame(c, r[2])
  IN IF from_frame # None /\ to_frame # None
     THEN Rendered("render_frame", from_frame, to_frame, Max(0, Min(AlphaOne, r[3])),
                   "base", FALSE)
     ELSE SpriteStatic(c, st)

SpriteSpeaking(c, st, tr) ==
  LET frame == get_emotion_frame(c, st.current_emotion)
  IN IF frame # None
     THEN Rendered("render_frame", frame, None, 0,
                   IF st.speaking_frame_toggle THEN "speaking" ELSE "base", FALSE)
     ELSE IF is_transitioning(tr) THEN SpriteTransition(c, st, tr)
     ELSE SpriteStatic(c, st)

BelowListening_transition_first(c, st, tr) ==
  IF is_transitioning(tr)
  THEN IF c.procedural
       THEN LET r == update_result(tr, 0)
            IN Rendered("render_procedural", get_emotion_params(r[1]),
                        get_emotion_params(r[2]), r[3], "zero", FALSE)
       ELSE SpriteTransition(c, st, tr)
  ELSE IF st.is_speaking
  THEN IF c.procedural
       THEN Rendered("render_procedural", get_emotion_params(st.current_emotion),
                     None, 0, "level", FALSE)
       ELSE SpriteSpeaking(c, st, tr)
  ELSE IF c.procedural
       THEN Rendered("render_procedural", get_emotion_params(st.current_emotion),
                     None, 0, "zero", FALSE)
       ELSE SpriteStatic(c, st)

BelowListening(c, st, tr) ==
  IF st.is_speaking
  THEN IF c.procedural
       THEN Rendered("render_procedural", get_emotion_params(st.current_emotion),
                     None, 0, "level", FALSE)
       ELSE SpriteSpeaking(c, st, tr)
  ELSE IF is_transitioning(tr)
  THEN IF c.procedural
       THEN LET r == update_result(tr, 0)
            IN Rendered("render_procedural", get_emotion_params(r[1]),
                        get_emotion_params(r[2]), r[3], "zero", FALSE)
       ELSE SpriteTransition(c, st, tr)
  ELSE IF c.procedural
       THEN Rendered("render_procedural", get_emotion_params(st.current_emotion),
                     None, 0, "zero", FALSE)
       ELSE SpriteStatic(c, st)

\* _render_frame: the call made to the renderer
render_frame_speaking_first(c, st, tr) ==
  IF st.is_listening /\ ~st.is_speaking
  THEN IF c.procedural
       THEN Rendered("render_procedural", get_emotion_params(st.current_emotion),
                     None, 0, "zero", TRUE)
       ELSE IF c.listening_image
       THEN Rendered("render_frame", "listening", None, 0, "base", TRUE)
       ELSE BelowListening(c, st, tr)
  ELSE BelowListening(c, st, tr)

render_frame(c, st, tr) ==
  IF st.is_listening
  THEN IF c.procedural
       THEN Rendered("render_procedural", get_emotion_params(st.current_emotion),
                     None, 0, "zero", TRUE)
       ELSE IF c.listening_image
       THEN Rendered("render_frame", "listening", None, 0, "base", TRUE)
       ELSE BelowListening(c, st, tr)
  ELSE BelowListening(c, st, tr)

\* _render_frame calls transition.update(0) when it reaches the transition branch
render_reaches_transition(c, st, tr) ==
  /\ is_transitioning(tr)
  /\ ~(st.is_listening /\ (c.procedural \/ c.listening_image))
  /\ ~(st.is_speaking /\ (c.procedural \/ get_emotion_frame(c, st.current_emotion) # None))

\* ----------------------------------------------------------------- gestures
\* touch_thresholds as the constructor and _classify_gesture read it, with the
\* defaults of the source
DefaultTouch ==
  [tap_distance |-> TapDist, double_tap_window |-> DoubleTapWindow,
   long_press |-> LongPressTime, drag_distance |-> DragDist,
   circle_distance |-> CircleDist, circle_return |-> CircleReturn,
   cooldown |-> GestureCooldown, effect_cooldown |-> EffectQueueCooldown,
   effect_busy |-> EffectBusyWindow]

\* touch_thresholds of a configuration file with short windows: double tap
\* within 0.05 s, long press from 0.1 s, cooldown 0.1 s, effect cooldown
\* 0.05 s, effect busy window 0.15 s
FastTouch ==
  [DefaultTouch EXCEPT !.double_tap_window = 1, !.long_press = 2,
                       !.cooldown = 2, !.effect_cooldown = 1, !.effect_busy = 3]

\* gesture_effects as configured: gesture -> effect; speak is the length of the
\* speak text (0: none). "drag" has no configured effect.
gesture_effects ==
  [long_press |-> [emotion |-> "happy", speak |-> 18],
   tap        |-> [emotion |-> "sad",   speak |-> 0],
   double_tap |-> [emotion |-> None,    speak |-> 18],
   scroll     |-> [emotion |-> "bogus", speak |-> 0]]

Gestures == {"tap", "double_tap", "long_press", "scroll", "drag"}

TouchInit ==
  [drag_distance |-> 0, start_pos |-> NoPos, down_pos |-> NoPos, down_time |-> 0]

Event(type, pos, buttons, t) == [type |-> type, pos |-> pos, buttons |-> buttons, t |-> t]

TouchTypes == {"MOUSEBUTTONDOWN", "MOUSEBUTTONUP", "MOUSEMOTION"}

IsTouchEvent(ev) == ev.type \in TouchTypes

\* pygame.event.clear(touch_events)
discard_touch_events_none(evq) == evq

discard_touch_events(evq) == SelectSeq(evq, LAMBDA ev : ~IsTouchEvent(ev))

\* closure / max(dist, 1e-6) <= 0.25, on whole pixels: for dist = 0 it holds
\* exactly when closure = 0
closure_ratio_ok(closure, dist) == 4 * closure <= dist

\* _classify_gesture: the gesture returned (None: no gesture), the new
\* pending_tap_time, and whether the tap branch was taken
Classified(gesture, pending, tap_branch) ==
  [gesture |-> gesture, pending |-> pending, tap_branch |-> tap_branch]

classify_gesture_drag_first(th, duration, dist, dx, dy, pending, t) ==
  LET closure == Abs(dx) + Abs(dy)
  IN IF duration >= th.long_press /\ dist < th.drag_distance
     THEN Classified("long_press", pending, FALSE)
     ELSE IF dist < th.tap_distance /\ duration < th.long_press
     THEN IF pending > 0 /\ t - pending <= th.double_tap_window
          THEN Classified("double_tap", 0, TRUE)
          ELSE Classified(None, t, TRUE)
     ELSE IF dist >= th.drag_distance
     THEN Classified("drag", pending, FALSE)
     ELSE IF /\ dist >= th.circle_distance
             /\ closure <= th.circle_return
             /\ closure_ratio_ok(closure, dist)
     THEN Classified("scroll", pending, FALSE)
     ELSE Classified(None, pending, FALSE)

classify_gesture(th, duration, dist, dx, dy, pending, t) ==
  LET closure == Abs(dx) + Abs(dy)
  IN IF duration >= th.long_press /\ dist < th.drag_distance
     THEN Classified("long_press", pending, FALSE)
     ELSE IF dist < th.tap_distance /\ duration < th.long_press
     THEN IF pending > 0 /\ t - pending <= th.double_tap_window
          THEN Classified("double_tap", 0, TRUE)
          ELSE Classified(None, t, TRUE)
     ELSE IF /\ dist >= th.circle_distance
             /\ closure <= th.circle_return
             /\ closure_ratio_ok(closure, dist)
     THEN Classified("scroll", pending, FALSE)
     ELSE IF dist >= th.drag_distance
     THEN Classified("drag", pending, FALSE)
     ELSE Classified(None, pending, FALSE)

\* The gesture logic reads and writes these fields of EmotionDisplay; a world
\* record w carries them through one handler.
WorldInit ==
  [command_queue |-> <<>>, state |-> DisplayStateInit, events |-> <<>>,
   touch |-> TouchInit, pending_tap_time |-> 0, last_effect_time |-> 0,
   gesture_log |-> <<>>, tap_ups |-> <<>>, dispatch_log |-> <<>>]

\* busy seconds of an effect: max(effect_busy_window, len(text) / 10 + 1.5)
busy_seconds_estimate_only(effect) ==
  IF effect.speak > 0
  THEN 2 * effect.speak + 30
  ELSE cfg.touch.effect_busy

busy_seconds(effect) ==
  IF effect.speak > 0
  THEN Max(cfg.touch.effect_busy, 2 * effect.speak + 30)
  ELSE cfg.touch.effect_busy

\* the acceptance path with set_emotion called at its default duration
accept_gesture_default_duration(w, gesture, t) ==
  LET w1 == [w EXCEPT !.state.last_gesture_time = t]
  IN IF gesture \notin DOMAIN gesture_effects
     THEN w1
     ELSE LET effect == gesture_effects[gesture]
              w2 == [w1 EXCEPT !.state.petting_active = TRUE,
                               !.state.gesture_busy_until = t + cfg.touch.effect_busy,
                               !.events = discard_touch_events(@)]
          IN IF t - w.last_effect_time < cfg.touch.effect_cooldown
             THEN [w2 EXCEPT !.state.petting_active = FALSE]
             ELSE LET q1 == IF effect.emotion # None
                            THEN Append(w2.command_queue,
                                        SetEmotionCmd(effect.emotion, DefaultDuration))
                            ELSE w2.command_queue
                  IN [w2 EXCEPT
                        !.last_effect_time = t,
                        !.state.gesture_busy_until = t + busy_seconds(effect),
                        !.command_queue = IF cfg.effect_callback THEN q1
                                          ELSE Append(q1, ApplyEffectCmd(gesture)),
                        !.dispatch_log = Append(@, [gesture |-> gesture,
                                                    callback |-> cfg.effect_callback])]

\* what _trigger_gesture_effect does once the three rejections have passed
\* the acceptance path whose suppression return leaves petting_active set
accept_gesture_suppressed_locked(w, gesture, t) ==
  LET w1 == [w EXCEPT !.state.last_gesture_time = t]
  IN IF gesture \notin DOMAIN gesture_effects
     THEN w1
     ELSE LET effect == gesture_effects[gesture]
              w2 == [w1 EXCEPT !.state.petting_active = TRUE,
                               !.state.gesture_busy_until = t + cfg.touch.effect_busy,
                               !.events = discard_touch_events(@)]
          IN IF t - w.last_effect_time < cfg.touch.effect_cooldown
             THEN w2
             ELSE LET q1 == IF effect.emotion # None
                            THEN Append(w2.command_queue,
                                        SetEmotionCmd(effect.emotion, EffectEmotionDuration))
                            ELSE w2.command_queue
                  IN [w2 EXCEPT
                        !.last_effect_time = t,
                        !.state.gesture_busy_until = t + busy_seconds(effect),
                        !.command_queue = IF cfg.effect_callback THEN q1
                                          ELSE Append(q1, ApplyEffectCmd(gesture)),
                        !.dispatch_log = Append(@, [gesture |-> gesture,
                                                    callback |-> cfg.effect_callback])]

accept_gesture(w, gesture, t) ==
  LET w1 == [w EXCEPT !.state.last_gesture_time = t]
  IN IF gesture \notin DOMAIN gesture_effects
     THEN w1
     ELSE LET effect == gesture_effects[gesture]
              w2 == [w1 EXCEPT !.state.petting_active = TRUE,
                               !.state.gesture_busy_until = t + cfg.touch.effect_busy,
                               !.events = discard_touch_events(@)]
          IN IF t - w.last_effect_time < cfg.touch.effect_cooldown
             THEN [w2 EXCEPT !.state.petting_active = FALSE]
             ELSE LET q1 == IF effect.emotion # None
                            THEN Append(w2.command_queue,
                                        SetEmotionCmd(effect.emotion, EffectEmotionDuration))
                            ELSE w2.command_queue
                  IN [w2 EXCEPT
                        !.last_effect_time = t,
                        !.state.gesture_busy_until = t + busy_seconds(effect),
                        !.command_queue = IF cfg.effect_callback THEN q1
                                          ELSE Append(q1, ApplyEffectCmd(gesture)),
                        !.dispatch_log = Append(@, [gesture |-> gesture,
                                                    callback |-> cfg.effect_callback])]

\* _trigger_gesture_effect
trigger_gesture_effect_no_petting_check(w, gesture, t) ==
  IF t - w.state.last_gesture_time < cfg.touch.cooldown THEN w
  ELSE IF t < w.state.gesture_busy_until THEN w
  ELSE accept_gesture(w, gesture, t)

trigger_gesture_effect(w, gesture, t) ==
  IF t - w.state.last_gesture_time < cfg.touch.cooldown THEN w
  ELSE IF t < w.state.gesture_busy_until THEN w
  ELSE IF w.state.petting_active THEN w
  ELSE accept_gesture(w, gesture, t)

\* _handle_touch_event measuring every move from the last recorded position
\* without recording the new one
handle_touch_event_from_start(w, ev, t) ==
  IF w.state.petting_active THEN w
  ELSE IF ev.type = "MOUSEBUTTONDOWN"
  THEN [w EXCEPT !.touch = [drag_distance |-> 0, start_pos |-> ev.pos,
                            down_pos |-> ev.pos, down_time |-> t]]
  ELSE IF ev.type = "MOUSEMOTION" /\ ev.buttons
  THEN IF w.touch.down_pos # NoPos
       THEN [w EXCEPT !.touch.drag_distance =
                         @ + Abs(ev.pos[1] - w.touch.down_pos[1])
                           + Abs(ev.pos[2] - w.touch.down_pos[2])]
       ELSE w
  ELSE IF ev.type = "MOUSEBUTTONUP"
  THEN IF w.touch.start_pos = NoPos THEN w
       ELSE LET c == classify_gesture(cfg.touch, t - w.touch.down_time,
                                      w.touch.drag_distance,
                                      ev.pos[1] - w.touch.start_pos[1],
                                      ev.pos[2] - w.touch.start_pos[2],
                                      w.pending_tap_time, t)
                w1 == [w EXCEPT
                         !.touch.start_pos = NoPos,
                         !.touch.down_pos = NoPos,
                         !.touch.drag_distance = 0,
                         !.pending_tap_time = c.pending,
                         !.tap_ups = IF c.tap_branch THEN Append(@, t) ELSE @,
                         !.gesture_log = IF c.gesture # None
                                         THEN Append(@, c.gesture) ELSE @]
            IN IF c.gesture # None
               THEN trigger_gesture_effect(w1, c.gesture, t)
               ELSE w1
  ELSE w

\* _handle_touch_event for one event ev, handled at time t
handle_touch_event(w, ev, t) ==
  IF w.state.petting_active THEN w
  ELSE IF ev.type = "MOUSEBUTTONDOWN"
  THEN [w EXCEPT !.touch = [drag_distance |-> 0, start_pos |-> ev.pos,
                            down_pos |-> ev.pos, down_time |-> t]]
  ELSE IF ev.type = "MOUSEMOTION" /\ ev.buttons
  THEN IF w.touch.down_pos # NoPos
       THEN [w EXCEPT !.touch.drag_distance =
                         @ + Abs(ev.pos[1] - w.touch.down_pos[1])
                           + Abs(ev.pos[2] - w.touch.down_pos[2]),
                      !.touch.down_pos = ev.pos]
       ELSE w
  ELSE IF ev.type = "MOUSEBUTTONUP"
  THEN IF w.touch.start_pos = NoPos THEN w
       ELSE LET c == classify_gesture(cfg.touch, t - w.touch.down_time,
                                      w.touch.drag_distance,
                                      ev.pos[1] - w.touch.start_pos[1],
                                      ev.pos[2] - w.touch.start_pos[2],
                                      w.pending_tap_time, t)
                w1 == [w EXCEPT
                         !.touch.start_pos = NoPos,
                         !.touch.down_pos = NoPos,
                         !.touch.drag_distance = 0,
                         !.pending_tap_time = c.pending,
                         !.tap_ups = IF c.tap_branch THEN Append(@, t) ELSE @,
                         !.gesture_log = IF c.gesture # None
                                         THEN Append(@, c.gesture) ELSE @]
            IN IF c.gesture # None
               THEN trigger_gesture_effect(w1, c.gesture, t)
               ELSE w1
  ELSE w

\* the pending-tap check at the end of _update_state, made at time t
pending_tap_check_busy_release(w, t) ==
  LET w0 == IF t >= w.state.gesture_busy_until
            THEN [w EXCEPT !.state.petting_active = FALSE] ELSE w
  IN IF touch_enabled /\ w0.pending_tap_time > 0
                      /\ t - w0.pending_tap_time > cfg.touch.double_tap_window
     THEN trigger_gesture_effect(
            [w0 EXCEPT !.pending_tap_time = 0, !.gesture_log = Append(@, "tap")],
            "tap", t)
     ELSE w0

pending_tap_check(w, t) ==
  IF touch_enabled /\ w.pending_tap_time > 0
                   /\ t - w.pending_tap_time > cfg.touch.double_tap_window
  THEN trigger_gesture_effect(
         [w EXCEPT !.pending_tap_time = 0, !.gesture_log = Append(@, "tap")],
         "tap", t)
  ELSE w

\* ------------------------------------------------------------------- state
\* One entry of the put history: the thread that called put and the command.
Put(by, cmd) == [by |-> by, cmd |-> cmd]

\* self.command_queue = queue.Queue(); the threads that call the setters.
\* The put and get histories are kept where keep is set; mark is the number of
\* puts made when the tick in progress began.
QlogInit(producers, keep) ==
  [producers |-> producers, keep |-> keep, put |-> <<>>, get |-> <<>>,
   mark |-> 0]

\* the history log with the entries more appended, if it is kept
Logged(log, more) == IF qlog.keep THEN log \o more ELSE log

\* the puts the loop thread made itself in a handler: set_emotion and the
\* APPLY_EFFECT put of _trigger_gesture_effect, which only append
loop_puts(q, q2) ==
  [i \in 1..(Len(q2) - Len(q)) |-> Put("loop", q2[Len(q) + i])]

\* threading.Thread(target=_cb_wrapper, daemon=True).start(), one thread for
\* each dispatch handed to the effect callback
CbThread(at, gesture) == [pc |-> at, gesture |-> gesture]

spawned(log, log2) ==
  LET fresh == SubSeq(log2, Len(log) + 1, Len(log2))
  IN [i \in 1..Len(SelectSeq(fresh, LAMBDA d : d.callback)) |->
        CbThread("start", SelectSeq(fresh, LAMBDA d : d.callback)[i].gesture)]

World ==
  [command_queue |-> command_queue, state |-> state, events |-> events,
   touch |-> touch, pending_tap_time |-> pending_tap_time,
   last_effect_time |-> last_effect_time, gesture_log |-> gesture_log,
   tap_ups |-> tap_ups, dispatch_log |-> dispatch_log]

SetWorld(w) ==
  /\ state' = w.state
  /\ events' = w.events
  /\ command_queue' = w.command_queue
  /\ last_effect_time' = w.last_effect_time
  /\ dispatch_log' = w.dispatch_log
  /\ touch' = w.touch
  /\ pending_tap_time' = w.pending_tap_time
  /\ gesture_log' = w.gesture_log
  /\ tap_ups' = w.tap_ups
  /\ qlog' = [qlog EXCEPT !.put = Logged(@, loop_puts(command_queue, w.command_queue))]
  /\ cb_threads' = cb_threads \o spawned(dispatch_log, w.dispatch_log)

worldVars ==
  <<state, events, command_queue, last_effect_time, dispatch_log, touch,
    pending_tap_time, gesture_log, tap_ups, qlog, cb_threads>>

\* What the constructor can have loaded: the procedural renderer loads no
\* sprites; the sprite renderer loads whatever PNGs the image directory holds.
ImageSets == {PresetKeys, {}}

Configs ==
  {[touch |-> th, emotion_images |-> {}, procedural |-> TRUE,
    listening_image |-> FALSE, effect_callback |-> cb] :
      cb \in BOOLEAN, th \in {DefaultTouch, FastTouch}}
  \cup
  {[touch |-> th, emotion_images |-> im, procedural |-> FALSE,
    listening_image |-> li, effect_callback |-> cb] :
      li \in BOOLEAN, im \in ImageSets, cb \in BOOLEAN,
      th \in {DefaultTouch, FastTouch}}

BudgetInit(horizon, max_cmds) ==
  [max_cmds |-> max_cmds, cmds |-> 0, presses |-> 0,
   max_time |-> Epoch + horizon]

RunsIdle == [trace |-> <<>>, run |-> <<>>]

ProbeIdle == [kind |-> "none"]

\* exit_callback as registered ("none": not registered; "returns"; "raises"),
\* the value last read by _check_gpio_exit, the calls of the exit callback and
\* the errors logged for it, the position of the thread that calls stop() or
\* cleanup(), where the loop was when the flag was cleared, whether the join
\* timed out, and the renderer.
LifeInit(exit_callback) ==
  [exit_callback |-> exit_callback, pressed |-> FALSE, exit_calls |-> 0,
   exit_errors |-> 0, caller |-> "idle", in_cleanup |-> FALSE,
   stop_pc |-> "none", timed_out |-> FALSE, renderer |-> "ready"]

\* The threads that call the setters when no specification says otherwise.
Callers == {"caller"}

\* What a step of the loop does with state_lock (threading.Lock, not
\* reentrant), with pygame's event queue and with an accepted effect, in program
\* order: "acquire" and "release" of the lock, "poll" of the pointer events,
\* "dispatch" of an effect. Recorded only where keep is TRUE.
LockLogInit(keep) == [keep |-> keep, ops |-> <<>>]

Ops(ops) == lock_log' = [lock_log EXCEPT !.ops = IF lock_log.keep THEN ops ELSE <<>>]

\* _execute_command: every branch runs inside "with self.state_lock"
execute_command_ops == <<"acquire", "release">>

\* _update_state with the pending-tap call made inside the with block
update_state_ops_trigger_locked(dispatched) ==
  IF dispatched THEN <<"acquire", "dispatch", "release">>
  ELSE <<"acquire", "release">>

\* _update_state: the transition and the toggle inside "with self.state_lock",
\* the pending-tap check and _trigger_gesture_effect("tap") after it
update_state_ops(dispatched) ==
  <<"acquire", "release">> \o (IF dispatched THEN <<"dispatch">> ELSE <<>>)

\* _render_frame: all of it inside "with self.state_lock"
render_frame_ops == <<"acquire", "release">>

\* the petting discard and pygame.event.get() in _display_loop
poll_ops == <<"poll">>

\* _handle_touch_event and the _trigger_gesture_effect it may call
handle_event_ops(dispatched) == IF dispatched THEN <<"dispatch">> ELSE <<>>

\* the display as constructed, apart from what is registered for the exit
DisplayFresh ==
  /\ now = Epoch
  /\ is_running = FALSE
  /\ pc = "init"
  /\ last_time = 0
  /\ delta_time = 0
  /\ command_queue = <<>>
  /\ state = DisplayStateInit
  /\ transition = TransitionInit
  /\ rendered = NothingRendered
  /\ events = <<>>
  /\ batch = <<>>
  /\ touch = TouchInit
  /\ pending_tap_time = 0
  /\ last_effect_time = 0
  /\ held = FALSE
  /\ gesture_log = <<>>
  /\ tap_ups = <<>>
  /\ dispatch_log = <<>>
  /\ applied = {}
  /\ cb_threads = <<>>

ProbeFree ==
  /\ DisplayFresh
  /\ life = LifeInit("none")
  /\ lock_log = LockLogInit(FALSE)

\* EmotionDisplay.__init__
Init ==
  /\ ProbeFree
  /\ cfg \in {c \in Configs : ~c.effect_callback /\ c.touch = DefaultTouch}
  /\ budget = BudgetInit(Horizon, MaxCmds)
  /\ runs = RunsIdle
  /\ probe = ProbeIdle
  /\ qlog = QlogInit(Callers, FALSE)

\* ------------------------------------------------------------- environment
\* The clock moves while the loop draws and presents a frame. The other steps
\* of a tick are instantaneous at the model's resolution: clock.tick(60) waits
\* at most 1/60 s, a third of one time unit.
AdvanceTime ==
  /\ now < budget.max_time
  /\ pc = "render"
  /\ now' = now + 1
  /\ UNCHANGED <<is_running, pc, last_time, delta_time, command_queue, state,
                 transition, cfg, rendered, events, batch, touch,
                 pending_tap_time, last_effect_time, held, gesture_log, tap_ups,
                 dispatch_log, applied, budget, runs, probe, qlog, cb_threads, life, lock_log>>

\* command_queue.put(cmd) by a producer thread. Only _process_commands reads
\* the queue, so a put is placed at one of three points of a tick: while the
\* queue is being drained, between the drain and the loop's own puts in
\* _update_state, and between those and the puts of the event handlers.
EnqueueBy_and_apply(by, cmd) ==
  /\ pc \in {"drain", "gpio", "render"}
  /\ budget.cmds < budget.max_cmds
  /\ Len(command_queue) < MaxQueue
  /\ command_queue' = Append(command_queue, cmd)
  /\ qlog' = [qlog EXCEPT !.put = Logged(@, <<Put(by, cmd)>>)]
  /\ budget' = [budget EXCEPT !.cmds = @ + 1]
  /\ state' = execute_command(state, transition, cmd).state
  /\ transition' = execute_command(state, transition, cmd).transition
  /\ UNCHANGED <<now, is_running, pc, last_time, delta_time,
                 cfg, rendered, events, batch, touch, pending_tap_time,
                 last_effect_time, held, gesture_log, tap_ups, dispatch_log,
                 applied, runs, probe, life, lock_log>>

EnqueueBy(by, cmd) ==
  /\ pc \in {"drain", "gpio", "render"}
  /\ budget.cmds < budget.max_cmds
  /\ Len(command_queue) < MaxQueue
  /\ command_queue' = Append(command_queue, cmd)
  /\ qlog' = [qlog EXCEPT !.put = Logged(@, <<Put(by, cmd)>>)]
  /\ budget' = [budget EXCEPT !.cmds = @ + 1]
  /\ UNCHANGED <<now, is_running, pc, last_time, delta_time, state, transition,
                 cfg, rendered, events, batch, touch, pending_tap_time,
                 last_effect_time, held, gesture_log, tap_ups, dispatch_log,
                 applied, runs, probe, life, lock_log>>

Enqueue(cmd) ==
  /\ \E by \in qlog.producers : EnqueueBy(by, cmd)
  /\ UNCHANGED cb_threads

set_emotion == \E e \in EmotionNames, d \in Durations : Enqueue(SetEmotionCmd(e, d))

set_listening == \E a \in BOOLEAN : Enqueue(SetListeningCmd(a))

set_speaking == \E a \in BOOLEAN : Enqueue(SetSpeakingCmd(a, FALSE, 0))

\* the effect callback's thread (or any caller) puts SET_PETTING on the queue
put_set_petting == \E a \in BOOLEAN : Enqueue(SetPettingCmd(a))

\* ------------------------------------------------------------ display loop
\* start(), called by the application before it calls stop() or cleanup()
\* (demo_full_integration.py starts the display at initialisation and cleans up
\* at the end of the run)
Start ==
  /\ ~is_running
  /\ pc = "init"
  /\ life.caller = "idle"
  /\ is_running' = TRUE
  /\ pc' = "begin"
  /\ UNCHANGED <<now, last_time, delta_time, command_queue, state, transition,
                 cfg, rendered, events, batch, touch, pending_tap_time,
                 last_effect_time, held, gesture_log, tap_ups, dispatch_log,
                 applied, budget, runs, probe, qlog, cb_threads, life, lock_log>>

\* _display_loop up to the loop: last_time = time.time()
LoopBegin ==
  /\ pc = "begin"
  /\ last_time' = now
  /\ pc' = "top"
  /\ UNCHANGED <<now, is_running, delta_time, command_queue, state, transition,
                 cfg, rendered, events, batch, touch, pending_tap_time,
                 last_effect_time, held, gesture_log, tap_ups, dispatch_log,
                 applied, budget, runs, probe, qlog, cb_threads, life, lock_log>>

\* while self.is_running: delta_time = current_time - last_time
LoopTop ==
  /\ pc = "top"
  /\ IF is_running
     THEN /\ delta_time' = now - last_time
          /\ last_time' = now
          /\ qlog' = [qlog EXCEPT !.mark = IF qlog.keep THEN Len(qlog.put) ELSE @]
          /\ pc' = "drain"
     ELSE /\ pc' = "exited"
          /\ UNCHANGED <<delta_time, last_time, qlog>>
  /\ UNCHANGED <<now, is_running, command_queue, state, transition, cfg,
                 rendered, events, batch, touch, pending_tap_time,
                 last_effect_time, held, gesture_log, tap_ups, dispatch_log,
                 applied, budget, runs, probe, cb_threads, life, lock_log>>

\* queue.Queue.get_nowait() on a queue that is not empty
get_nowait_clear(q) == [cmd |-> Head(q), rest |-> <<>>]

get_nowait_newest(q) ==
  [cmd |-> q[Len(q)], rest |-> SubSeq(q, 1, Len(q) - 1)]

get_nowait(q) == [cmd |-> Head(q), rest |-> Tail(q)]

\* _process_commands: one get_nowait() and _execute_command
ExecuteCommand ==
  /\ pc = "drain"
  /\ command_queue # <<>>
  /\ LET got == get_nowait(command_queue)
         cmd == got.cmd
         r == execute_command(state, transition, cmd)
     IN /\ state' = r.state
        /\ transition' = r.transition
        /\ applied' = IF cmd.type = "SET_EMOTION"
                      THEN applied \cup {<<cmd.emotion, r.skipped>>} ELSE applied
        /\ command_queue' = got.rest
        /\ qlog' = [qlog EXCEPT !.get = Logged(@, <<cmd>>)]
  /\ Ops(execute_command_ops)
  /\ UNCHANGED <<now, is_running, pc, last_time, delta_time, cfg, rendered,
                 events, batch, touch, pending_tap_time, last_effect_time, held,
                 gesture_log, tap_ups, dispatch_log, budget, runs, probe,
                 cb_threads, life>>

\* _process_commands returning while commands are still queued
ProcessCommandsDone_early ==
  /\ pc = "drain"
  /\ pc' = "gpio"
  /\ UNCHANGED <<now, is_running, last_time, delta_time, command_queue, state,
                 transition, cfg, rendered, events, batch, touch,
                 pending_tap_time, last_effect_time, held, gesture_log, tap_ups,
                 dispatch_log, applied, budget, runs, probe, qlog, cb_threads, life, lock_log>>

\* _process_commands: get_nowait() raises queue.Empty
ProcessCommandsDone ==
  /\ pc = "drain"
  /\ command_queue = <<>>
  /\ pc' = "gpio"
  /\ UNCHANGED <<now, is_running, last_time, delta_time, command_queue, state,
                 transition, cfg, rendered, events, batch, touch,
                 pending_tap_time, last_effect_time, held, gesture_log, tap_ups,
                 dispatch_log, applied, budget, runs, probe, qlog, cb_threads, life, lock_log>>

\* _check_gpio_exit and the exit branch of the loop
exit_branch_raise_propagates(l, running) ==
  [life |-> [l EXCEPT !.pressed = TRUE,
                      !.exit_calls = IF l.exit_callback # "none" THEN @ + 1 ELSE @],
   is_running |-> IF l.exit_callback = "raises" THEN running ELSE FALSE]

\* the exit branch of the loop: the exit callback, if one is registered, is
\* called inside try/except Exception, an error is logged; then
\* self.is_running = False and break
exit_branch(l, running) ==
  [life |-> [l EXCEPT !.pressed = TRUE,
                      !.exit_calls = IF l.exit_callback # "none" THEN @ + 1 ELSE @,
                      !.exit_errors = IF l.exit_callback = "raises" THEN @ + 1 ELSE @],
   is_running |-> FALSE]

CheckGpioExit ==
  /\ pc = "gpio"
  /\ \E pressed \in BOOLEAN :
       IF pressed
       THEN /\ is_running' = exit_branch(life, is_running).is_running
            /\ life' = exit_branch(life, is_running).life
            /\ pc' = "exited"
       ELSE /\ is_running' = is_running
            /\ life' = [life EXCEPT !.pressed = FALSE]
            /\ pc' = "update"
  /\ UNCHANGED <<now, last_time, delta_time, command_queue, state, transition,
                 cfg, rendered, events, batch, touch, pending_tap_time,
                 last_effect_time, held, gesture_log, tap_ups, dispatch_log,
                 applied, budget, runs, probe, qlog, cb_threads, lock_log>>

\* _update_state, the transition part: transition.update(delta_time) and the commit
update_state_transition_keep_target(st, tr, dt) ==
  IF is_transitioning(tr)
  THEN LET t2 == update(tr, dt)
           r == update_result(tr, dt)
       IN [state |-> IF ~is_transitioning(t2)
                     THEN [st EXCEPT !.current_emotion = r[2]]
                     ELSE st,
           transition |-> t2]
  ELSE [state |-> st, transition |-> tr]

update_state_transition_keep_current(st, tr, dt) ==
  IF is_transitioning(tr)
  THEN LET t2 == update(tr, dt)
       IN [state |-> IF ~is_transitioning(t2)
                     THEN [st EXCEPT !.target_emotion = None]
                     ELSE st,
           transition |-> t2]
  ELSE [state |-> st, transition |-> tr]

\* _update_state advancing the transition only while neither flag hides it
update_state_transition_unless_hidden(st, tr, dt) ==
  IF is_transitioning(tr) /\ ~(st.is_listening \/ st.is_speaking)
  THEN LET t2 == update(tr, dt)
           r == update_result(tr, dt)
       IN [state |-> IF ~is_transitioning(t2)
                     THEN [st EXCEPT !.current_emotion = r[2],
                                     !.target_emotion = None]
                     ELSE st,
           transition |-> t2]
  ELSE [state |-> st, transition |-> tr]

update_state_transition(st, tr, dt) ==
  IF is_transitioning(tr)
  THEN LET t2 == update(tr, dt)
           r == update_result(tr, dt)
       IN [state |-> IF ~is_transitioning(t2)
                     THEN [st EXCEPT !.current_emotion = r[2],
                                     !.target_emotion = None]
                     ELSE st,
           transition |-> t2]
  ELSE [state |-> st, transition |-> tr]

\* _update_state, the sprite-alternation toggle
update_state_toggle(st, t) ==
  IF (st.is_speaking \/ st.is_listening)
     /\ t - st.last_toggle_time >= ToggleInterval
  THEN [st EXCEPT !.speaking_frame_toggle = ~@, !.last_toggle_time = t]
  ELSE st

\* _update_state
UpdateState ==
  /\ pc = "update"
  /\ LET r == update_state_transition(state, transition, delta_time)
         st2 == update_state_toggle(r.state, now)
         w == pending_tap_check([World EXCEPT !.state = st2], now)
     IN /\ transition' = r.transition
        /\ SetWorld(w)
  /\ pc' = "render"
  /\ Ops(update_state_ops(Len(dispatch_log') > Len(dispatch_log)))
  /\ UNCHANGED <<now, is_running, last_time, delta_time, cfg, rendered, batch,
                 held, applied, budget, runs, probe, life>>

\* _render_frame
RenderFrame ==
  /\ pc = "render"
  /\ rendered' = render_frame(cfg, state, transition)
  /\ transition' = IF render_reaches_transition(cfg, state, transition)
                   THEN update(transition, 0) ELSE transition
  /\ delta_time' = 0
  /\ pc' = "poll"
  /\ Ops(render_frame_ops)
  /\ UNCHANGED <<now, is_running, last_time, command_queue, state,
                 cfg, events, batch, touch, pending_tap_time, last_effect_time,
                 held, gesture_log, tap_ups, dispatch_log, applied, budget, runs, probe, qlog, cb_threads, life>>

\* the petting discard and pygame.event.get()
PollEvents ==
  /\ pc = "poll"
  /\ batch' = IF touch_enabled /\ state.petting_active
              THEN discard_touch_events(events) ELSE events
  /\ events' = <<>>
  /\ pc' = "events"
  /\ Ops(poll_ops)
  /\ UNCHANGED <<now, is_running, last_time, delta_time, command_queue, state,
                 transition, cfg, rendered, touch, pending_tap_time,
                 last_effect_time, held, gesture_log, tap_ups, dispatch_log,
                 applied, budget, runs, probe, qlog, cb_threads, life>>

\* one iteration of the for loop over the polled events
HandleEvent ==
  /\ pc = "events"
  /\ batch # <<>>
  /\ LET ev == Head(batch)
     IN IF ev.type = "QUIT"
        THEN is_running' = FALSE /\ UNCHANGED worldVars
        ELSE /\ is_running' = is_running
             /\ IF touch_enabled
                THEN SetWorld(handle_touch_event(World, ev, now))
                ELSE UNCHANGED worldVars
  /\ batch' = Tail(batch)
  /\ Ops(handle_event_ops(Len(dispatch_log') > Len(dispatch_log)))
  /\ UNCHANGED <<now, pc, last_time, delta_time, transition, cfg, rendered, held,
                 applied, budget, runs, probe, life>>

\* clock.tick(fps) after the last polled event
ClockTick ==
  /\ pc = "events"
  /\ batch = <<>>
  /\ rendered' = NothingRendered
  /\ pc' = "top"
  /\ UNCHANGED <<now, is_running, last_time, delta_time, command_queue, state,
                 transition, cfg, events, batch, touch,
                 pending_tap_time, last_effect_time, held, gesture_log, tap_ups,
                 dispatch_log, applied, budget, runs, probe, qlog, cb_threads, life, lock_log>>

\* The display driven by its callers: commands and time, no pointer input.
Next ==
  \/ Start
  \/ LoopBegin
  \/ LoopTop
  \/ ExecuteCommand
  \/ ProcessCommandsDone
  \/ CheckGpioExit
  \/ UpdateState
  \/ RenderFrame
  \/ PollEvents
  \/ ClockTick
  \/ AdvanceTime
  \/ set_emotion
  \/ set_listening
  \/ set_speaking

Spec == Init /\ [][Next]_vars

\* ====================================================== claims, display loop
AppliedNames == {a[1] : a \in applied}

\* the listening pose as _render_frame asks for it: the listening overlay on
\* the current emotion (procedural) or the listening sprite
IsListeningPose(r) ==
  /\ r.listening
  /\ r.b = None
  /\ r.alpha = 0
  /\ r.speaking \in {"zero", "base"}
  /\ r.a = IF cfg.procedural THEN get_emotion_params(state.current_emotion)
           ELSE "listening"

\* C1 as stated: on every tick on which is_listening is true the frame just
\* rendered is the listening pose, in the sprite and in the procedural mode,
\* whatever is_speaking and the transition are.
C1_Original == (pc = "poll" /\ state.is_listening) => IsListeningPose(rendered)

\* C1 amended: on every tick on which is_listening is true and the renderer
\* is procedural or has loaded its listening sprite, the frame just rendered is
\* the listening pose and shows nothing of is_speaking or of the transition.
C1_ListeningPriority ==
  (pc = "poll" /\ state.is_listening /\ (cfg.procedural \/ cfg.listening_image))
    => IsListeningPose(rendered)

C1_Witness ==
  /\ pc = "poll"
  /\ state.is_listening
  /\ cfg.procedural \/ cfg.listening_image
  /\ state.is_speaking \/ transition.is_active
  /\ IsListeningPose(rendered)

\* C4: the commit is atomic. No state between two steps of the loop has alpha
\* at 1.0 with the transition still active, the controller's from-emotion not
\* yet the to-emotion, current_emotion still the old emotion or target_emotion
\* still set.
C4_AtomicCommit ==
  transition.alpha >= AlphaOne =>
    /\ ~transition.is_active
    /\ transition.from_emotion = transition.to_emotion
    /\ state.current_emotion = transition.to_emotion
    /\ state.target_emotion = None

C4_Witness ==
  /\ transition.alpha = AlphaOne
  /\ state.current_emotion = "sad"
  /\ transition.elapsed_time > transition.duration

\* C5: applying SET_EMOTION{X, d} while current_emotion = X and no transition
\* is active changes neither DisplayState nor the TransitionController.
C5_Idempotent ==
  [][ ( /\ pc = "drain"
        /\ command_queue # <<>>
        /\ command_queue' = Tail(command_queue)
        /\ Head(command_queue).type = "SET_EMOTION"
        /\ Head(command_queue).emotion = state.current_emotion
        /\ ~transition.is_active )
      => (state' = state /\ transition' = transition) ]_vars

C5_Witness ==
  /\ <<"sad", TRUE>> \in applied
  /\ state.current_emotion = "sad"
  /\ ~transition.is_active

\* C9: between any two steps of the loop, target_emotion is set exactly when
\* the TransitionController is active.
C9_TargetIffActive == (state.target_emotion # None) <=> transition.is_active

C9_Witness ==
  /\ state.target_emotion = "sad"
  /\ transition.is_active
  /\ transition.elapsed_time > 0

\* C10 as stated: current_emotion is always a key of the preset set.
C10_Original == state.current_emotion \in PresetKeys

\* C10 amended: current_emotion is a preset key or the name given by a
\* SET_EMOTION command that was applied (names are not validated), so it is a
\* preset key whenever every applied SET_EMOTION named a preset.
C10_KnownOrRequested ==
  state.current_emotion \in PresetKeys \cup AppliedNames

C10_Witness ==
  /\ state.current_emotion = "sad"
  /\ AppliedNames = {"sad"}
  /\ ~transition.is_active

\* ======================================== TransitionController on its own
IdleCfg ==
  [touch |-> DefaultTouch, emotion_images |-> {}, procedural |-> TRUE,
   listening_image |-> FALSE, effect_callback |-> FALSE]

RequestedDurations == {0 - 4, 0, 1, 3, DefaultDuration}

InitTransition ==
  /\ ProbeFree
  /\ cfg = IdleCfg
  /\ budget = BudgetInit(0, 0)
  /\ runs = RunsIdle
  /\ qlog = QlogInit(Callers, FALSE)
  /\ probe = [kind |-> "transition", starts |-> 0, steps |-> 0, sum |-> 0,
              requested |-> 0, from |-> None, to |-> None]

\* transition.start_transition(from, to, duration)
TStart ==
  /\ probe.starts < 2
  /\ \E f \in PresetKeys, t \in EmotionNames, d \in RequestedDurations :
       /\ transition' = start_transition(transition, f, t, d)
       /\ probe' = [probe EXCEPT !.starts = @ + 1, !.steps = 0, !.sum = 0,
                                 !.requested = d, !.from = f, !.to = t]
  /\ UNCHANGED <<now, is_running, pc, last_time, delta_time, command_queue,
                 state, cfg, rendered, events, batch, touch, pending_tap_time,
                 last_effect_time, held, gesture_log, tap_ups, dispatch_log,
                 applied, budget, runs, qlog, cb_threads, life, lock_log>>

\* transition.update(dt)
TUpdate ==
  /\ probe.starts > 0
  /\ probe.steps < MaxSteps
  /\ \E dt \in 0..MaxDt :
       /\ transition' = update(transition, dt)
       /\ probe' = [probe EXCEPT !.steps = @ + 1, !.sum = @ + dt]
  /\ UNCHANGED <<now, is_running, pc, last_time, delta_time, command_queue,
                 state, cfg, rendered, events, batch, touch, pending_tap_time,
                 last_effect_time, held, gesture_log, tap_ups, dispatch_log,
                 applied, budget, runs, qlog, cb_threads, life, lock_log>>

NextTransition == TStart \/ TUpdate

SpecTransition == InitTransition /\ [][NextTransition]_vars

ClampedDuration == Max(MinDuration, probe.requested)

C3_Invariant ==
  probe.starts > 0 =>
    /\ transition.alpha \in 0..AlphaOne
    /\ probe.sum >= ClampedDuration =>
         /\ transition.alpha = AlphaOne
         /\ ~transition.is_active
         /\ transition.from_emotion = probe.to
    /\ probe.sum < ClampedDuration =>
         /\ transition.alpha < AlphaOne
         /\ transition.is_active
         /\ transition.from_emotion = probe.from
    /\ (probe.requested = 10 /\ probe.sum = 5) => transition.alpha = 500

C3_Step == (probe'.starts = probe.starts) => transition'.alpha >= transition.alpha

\* C3: after start_transition, update(dt) calls with dt >= 0 give a
\* non-decreasing alpha within [0,1]; the transition stays pending below the
\* clamped duration, and once the accumulated dt reaches it alpha is exactly
\* 1.0, the controller is idle and its current emotion is the to-emotion
\* (0.5 s: after 0.25 s alpha is 0.5, after 0.55 s it is 1.0 and committed).
C3_Monotone == []C3_Invariant /\ [][C3_Step]_vars

C3_Witness ==
  /\ probe.kind = "transition"
  /\ probe.from = "happy" /\ probe.to = "sad"
  /\ probe.requested = 10 /\ probe.steps = 2 /\ probe.sum = 11
  /\ transition.alpha = AlphaOne
  /\ transition.from_emotion = "sad"
  /\ ~transition.is_active

\* =========================================== _classify_gesture on its own
ThresholdSettings ==
  { DefaultTouch,
    [DefaultTouch EXCEPT !.tap_distance = 70, !.circle_distance = 50],
    [DefaultTouch EXCEPT !.drag_distance = 150, !.long_press = 0],
    [DefaultTouch EXCEPT !.circle_return = 0, !.double_tap_window = 0] }

ClassifyTime == Epoch + 20

ClassifyInputs ==
  [kind : {"classify"}, th : ThresholdSettings,
   duration : {0, 11, 12, 13}, dist : {0, 19, 20, 59, 60, 139, 140, 200},
   dx : {0, 30, 45, 0 - 50}, dy : {0, 5, 0 - 10},
   pending : {0, ClassifyTime - 7, ClassifyTime - 8},
   done : {FALSE}, result : {Classified(None, 0, FALSE)}]

InitClassify ==
  /\ ProbeFree
  /\ cfg = IdleCfg
  /\ budget = BudgetInit(0, 0)
  /\ runs = RunsIdle
  /\ probe \in ClassifyInputs
  /\ qlog = QlogInit(Callers, FALSE)

\* one call of _classify_gesture at time ClassifyTime
Classify ==
  /\ probe.kind = "classify"
  /\ ~probe.done
  /\ probe' = [probe EXCEPT
       !.done = TRUE,
       !.result = classify_gesture(probe.th, probe.duration, probe.dist, probe.dx,
                                   probe.dy, probe.pending, ClassifyTime)]
  /\ UNCHANGED <<now, is_running, pc, last_time, delta_time, command_queue,
                 state, transition, cfg, rendered, events, batch, touch,
                 pending_tap_time, last_effect_time, held, gesture_log, tap_ups,
                 dispatch_log, applied, budget, runs, qlog, cb_threads, life, lock_log>>

NextClassify == Classify

SpecClassify == InitClassify /\ [][NextClassify]_vars

\* the decision list of the specification, rule by rule
RuleLongPress == probe.duration >= probe.th.long_press /\ probe.dist < probe.th.drag_distance
RuleTap == probe.dist < probe.th.tap_distance /\ probe.duration < probe.th.long_press
RuleScroll ==
  /\ probe.dist >= probe.th.circle_distance
  /\ Abs(probe.dx) + Abs(probe.dy) <= probe.th.circle_return
  /\ 4 * (Abs(probe.dx) + Abs(probe.dy)) <= probe.dist
RuleDrag == probe.dist >= probe.th.drag_distance
RuleSecondTap ==
  probe.pending > 0 /\ ClassifyTime - probe.pending <= probe.th.double_tap_window

\* C7: the gesture returned on pointer-up is that of the first matching rule:
\* long_press, else the tap branch (double_tap for a second tap within the
\* window, otherwise a pending tap and no gesture), else scroll, else drag,
\* else none; only the tap branch touches pending_tap_time.
C7_DecisionList ==
  probe.done =>
    /\ RuleLongPress => probe.result.gesture = "long_press"
    /\ (~RuleLongPress /\ RuleTap /\ RuleSecondTap) =>
          (probe.result.gesture = "double_tap" /\ probe.result.pending = 0)
    /\ (~RuleLongPress /\ RuleTap /\ ~RuleSecondTap) =>
          (probe.result.gesture = None /\ probe.result.pending = ClassifyTime)
    /\ (~RuleLongPress /\ ~RuleTap /\ RuleScroll) => probe.result.gesture = "scroll"
    /\ (~RuleLongPress /\ ~RuleTap /\ ~RuleScroll /\ RuleDrag) =>
          probe.result.gesture = "drag"
    /\ (~RuleLongPress /\ ~RuleTap /\ ~RuleScroll /\ ~RuleDrag) =>
          probe.result.gesture = None
    /\ ~(~RuleLongPress /\ RuleTap) => probe.result.pending = probe.pending
    /\ probe.result.tap_branch = (~RuleLongPress /\ RuleTap)

C7_Witness ==
  /\ probe.kind = "classify"
  /\ probe.done
  /\ probe.th = DefaultTouch
  /\ RuleScroll /\ RuleDrag /\ ~RuleTap /\ ~RuleLongPress
  /\ probe.result.gesture = "scroll"

\* ================================================== the loop under touch
Positions == {<<0, 0>>, <<80, 0>>}
DownPositions == {<<0, 0>>}

\* pointer events arrive as time passes, i.e. while a frame is being drawn;
\* the handlers read no time from an event, so the loop's events carry t = 0
PointerEvent(ev) ==
  /\ pc = "render"
  /\ Len(events) < MaxEvents
  /\ events' = Append(events, ev)
  /\ UNCHANGED <<now, is_running, pc, last_time, delta_time, command_queue,
                 state, transition, cfg, rendered, batch, touch,
                 pending_tap_time, last_effect_time, gesture_log, tap_ups,
                 dispatch_log, applied, runs, probe, qlog, cb_threads, life, lock_log>>

\* the finger touches the screen: pygame queues MOUSEBUTTONDOWN
PointerDown ==
  /\ ~held
  /\ budget.presses < MaxPresses
  /\ \E p \in DownPositions : PointerEvent(Event("MOUSEBUTTONDOWN", p, FALSE, 0))
  /\ held' = TRUE
  /\ budget' = [budget EXCEPT !.presses = @ + 1]

\* the finger lifts: MOUSEBUTTONUP
PointerUp ==
  /\ held
  /\ \E p \in DownPositions : PointerEvent(Event("MOUSEBUTTONUP", p, FALSE, 0))
  /\ held' = FALSE
  /\ budget' = budget

InitGesture ==
  /\ ProbeFree
  /\ cfg \in {c \in Configs : c.procedural /\ c.touch = FastTouch}
  /\ budget = BudgetInit(GestureHorizon, MaxPettingCmds)
  /\ runs = RunsIdle
  /\ probe = ProbeIdle
  /\ qlog = QlogInit(Callers, FALSE)

NextGesture ==
  \/ Start
  \/ LoopBegin
  \/ LoopTop
  \/ ExecuteCommand
  \/ ProcessCommandsDone
  \/ CheckGpioExit
  \/ UpdateState
  \/ RenderFrame
  \/ PollEvents
  \/ HandleEvent
  \/ ClockTick
  \/ AdvanceTime
  \/ PointerDown
  \/ PointerUp
  \/ put_set_petting

SpecGesture == InitGesture /\ [][NextGesture]_vars

\* ---------------------------------------------------- claims, loop under touch
\* C2: whenever an effect is dispatched (callback thread started or
\* APPLY_EFFECT queued), at that moment petting_active is false, the busy
\* window is over and the cooldown since last_gesture_time has passed.
C2_NoOverlap ==
  [][ Len(dispatch_log') > Len(dispatch_log) =>
        /\ ~state.petting_active
        /\ now >= state.gesture_busy_until
        /\ now - state.last_gesture_time >= cfg.touch.cooldown ]_vars

\* a second tap was resolved after a first one had been dispatched, and was
\* rejected
C2_Witness ==
  /\ gesture_log = <<"tap", "tap">>
  /\ Len(dispatch_log) = 1
  /\ pending_tap_time = 0

TwoTapsResolved ==
  /\ budget.presses = 2
  /\ Len(tap_ups) = 2
  /\ pending_tap_time = 0
  /\ batch = <<>>

\* C6 as stated: two consecutive taps whose pointer-ups are less than the
\* double-tap window apart resolve to one double_tap and no tap; more than the
\* window apart they resolve to two taps. The separation is taken as the
\* program measures it, between the times at which the two pointer-ups are
\* handled.
C6_Original ==
  TwoTapsResolved =>
    /\ tap_ups[2] - tap_ups[1] < cfg.touch.double_tap_window
         => gesture_log = <<"double_tap">>
    /\ tap_ups[2] - tap_ups[1] > cfg.touch.double_tap_window
         => gesture_log = <<"tap", "tap">>

\* ================================ two runs of the gesture logic, one trace
\* One tick of the loop as the gesture logic sees it: the pending-tap check of
\* _update_state at the run's clock, then, d time units later, the poll, which
\* hands every event that has arrived to _handle_touch_event (or drops them
\* all under the petting lock).
RECURSIVE handle_all(_, _, _)
handle_all(w, evs, t) ==
  IF evs = <<>> THEN w
  ELSE handle_all(handle_touch_event(w, Head(evs), t), Tail(evs), t)

Arrived(trace, t) == Cardinality({i \in 1..Len(trace) : trace[i].t <= t})

Press(t_down, t_up, up_pos) ==
  << Event("MOUSEBUTTONDOWN", <<0, 0>>, FALSE, t_down),
     Event("MOUSEBUTTONUP", up_pos, FALSE, t_up) >>

Swipe(t_down, t_up, to_pos) ==
  << Event("MOUSEBUTTONDOWN", <<0, 0>>, FALSE, t_down),
     Event("MOUSEMOTION", to_pos, TRUE, t_down),
     Event("MOUSEBUTTONUP", to_pos, FALSE, t_up) >>

RunTraces ==
  {Press(Epoch, Epoch + h, p) : h \in 0..2, p \in Positions}
  \cup
  {Swipe(Epoch, Epoch + h, <<80, 0>>) : h \in 0..2}
  \cup
  {Press(Epoch, Epoch, <<0, 0>>) \o Press(Epoch + g, Epoch + g, <<0, 0>>) : g \in 0..2}

RunInit == [w |-> WorldInit, clock |-> Epoch, idx |-> 0]

InitRuns ==
  /\ ProbeFree
  /\ cfg = [IdleCfg EXCEPT !.touch = FastTouch]
  /\ budget = BudgetInit(GestureHorizon, 0)
  /\ probe = ProbeIdle
  /\ qlog = QlogInit(Callers, FALSE)
  /\ \E tr \in RunTraces : runs = [trace |-> tr, run |-> <<RunInit, RunInit>>]

RunTick ==
  /\ \E r \in {1, 2}, d \in 0..MaxTickTime :
       LET run == runs.run[r]
           w1 == pending_tap_check(run.w, run.clock)
           p == run.clock + d
           arrived == Arrived(runs.trace, p)
           polled == SubSeq(runs.trace, run.idx + 1, arrived)
           w2 == IF touch_enabled /\ w1.state.petting_active THEN w1
                 ELSE handle_all(w1, polled, p)
       IN /\ p <= budget.max_time
          /\ runs' = [runs EXCEPT !.run[r] = [w |-> w2, clock |-> p, idx |-> arrived]]
  /\ UNCHANGED <<now, is_running, pc, last_time, delta_time, command_queue,
                 state, transition, cfg, rendered, events, batch, touch,
                 pending_tap_time, last_effect_time, held, gesture_log, tap_ups,
                 dispatch_log, applied, budget, probe, qlog, cb_threads, life, lock_log>>

NextRuns == RunTick

SpecRuns == InitRuns /\ [][NextRuns]_vars

RunDone(r) ==
  /\ runs.run[r].idx = Len(runs.trace)
  /\ runs.run[r].w.pending_tap_time = 0

\* C8 as stated: two runs fed the same pointer events, with the same positions
\* and timestamps, resolve the same gestures, however their ticks fall.
C8_Original ==
  (RunDone(1) /\ RunDone(2)) =>
     runs.run[1].w.gesture_log = runs.run[2].w.gesture_log

\* -------------------------------------------------- the queue and its users
\* The threads of the integration that call the setters: the speech pipeline
\* and the conversation loop.
Producers == {"speech", "conversation"}

InitQueue ==
  /\ ProbeFree
  /\ cfg = IdleCfg
  /\ budget = BudgetInit(0, MaxProducerCmds)
  /\ runs = RunsIdle
  /\ probe = ProbeIdle
  /\ qlog = QlogInit(Producers, TRUE)

\* The loop and two threads calling the setters.
NextQueue ==
  \/ Start
  \/ LoopBegin
  \/ LoopTop
  \/ ExecuteCommand
  \/ ProcessCommandsDone
  \/ CheckGpioExit
  \/ UpdateState
  \/ RenderFrame
  \/ PollEvents
  \/ ClockTick
  \/ set_emotion
  \/ set_listening
  \/ set_speaking

SpecQueue == InitQueue /\ [][NextQueue]_vars

PutCmds == [i \in 1..Len(qlog.put) |-> qlog.put[i].cmd]

\* C11: the commands the loop has applied, followed by those still queued, are
\* the commands put, in the order of the puts; so the loop applies commands in
\* arrival order, and two commands of one producer in that producer's order.
C11_Fifo == PutCmds = qlog.get \o command_queue

\* Two different commands of one producer have both been applied.
C11_Witness ==
  /\ Len(qlog.get) = 2
  /\ qlog.put[1].by = qlog.put[2].by
  /\ qlog.put[1].cmd # qlog.put[2].cmd

\* The steps of the render-loop thread, started by start() as a daemon thread
\* that the operating system keeps scheduling.
LoopThread ==
  \/ LoopBegin
  \/ LoopTop
  \/ ExecuteCommand
  \/ ProcessCommandsDone
  \/ CheckGpioExit
  \/ UpdateState
  \/ RenderFrame
  \/ PollEvents
  \/ HandleEvent
  \/ ClockTick

\* One thread calling the setters: which thread puts a command makes no
\* difference to what the loop does with it.
InitDelivery ==
  /\ ProbeFree
  /\ cfg = IdleCfg
  /\ budget = BudgetInit(0, MaxProducerCmds)
  /\ runs = RunsIdle
  /\ probe = ProbeIdle
  /\ qlog = QlogInit(Callers, TRUE)

SpecDelivery == InitDelivery /\ [][NextQueue]_vars /\ WF_vars(LoopThread)

\* A command leaves the queue only in the loop thread's drain, which applies it.
ConsumedByLoop ==
  (command_queue' # command_queue /\ Len(command_queue') <= Len(command_queue))
    => /\ pc = "drain"
       /\ command_queue' = Tail(command_queue)
       /\ qlog'.get = Append(qlog.get, Head(command_queue))

\* C12: the n-th command put is eventually taken and applied by the loop
\* thread, unless the loop has been told to exit; and a command leaves the
\* queue in no other way.
C12_Delivery ==
  /\ \A n \in 1..MaxProducerCmds :
       (Len(qlog.put) >= n) ~> (Len(qlog.get) >= n \/ pc = "exited")
  /\ [][ConsumedByLoop]_vars

\* Two commands were put while the loop was between drains, and the loop has
\* applied both and runs on.
C12_Witness ==
  /\ Len(qlog.get) = 2
  /\ command_queue = <<>>
  /\ pc = "gpio"
  /\ is_running

\* A step in which one of the threads calling the setters put a command.
ProducerPut ==
  /\ Len(qlog'.put) = Len(qlog.put) + 1
  /\ qlog'.put[Len(qlog'.put)].by \in qlog.producers

\* C13: a setter called from any thread appends its command to the queue and
\* changes neither DisplayState nor the transition; every step that changes
\* either of them is a step of the render-loop thread.
C13_ProducersOnlyEnqueue ==
  [][/\ ProducerPut =>
          /\ state' = state
          /\ transition' = transition
          /\ command_queue' = Append(command_queue, qlog'.put[Len(qlog'.put)].cmd)
     /\ (state' # state \/ transition' # transition) => LoopThread]_vars

\* A setter was called while a transition started by an earlier command was
\* in progress, and its command waits in the queue.
C13_Witness ==
  /\ Len(qlog.put) = 2
  /\ Len(qlog.get) = 1
  /\ command_queue # <<>>
  /\ is_transitioning(transition)
  /\ state.target_emotion # None

\* ------------------------------------------------ the effect callback threads
\* threading.Thread(target=_cb_wrapper, daemon=True).start(): the loop thread
\* starts the thread and goes on; it joins no callback thread.
loop_awaits_join(threads) ==
  \E i \in 1..Len(threads) : threads[i].pc \notin {"done", "failed"}

loop_awaits(threads) == FALSE

\* A step of the render-loop thread in a display with an effect callback.
LoopStep ==
  /\ ~loop_awaits(cb_threads)
  /\ LoopThread

\* CompanionBot.petting_lock: set while a callback is inside its try block
petting_lock(threads) ==
  \E j \in 1..Len(threads) : threads[j].pc \in {"locked", "speaking"}

\* a step of callback thread i that puts nothing on the queue
CbMove(i, at) ==
  /\ cb_threads' = [cb_threads EXCEPT ![i].pc = at]
  /\ UNCHANGED <<now, is_running, pc, last_time, delta_time, command_queue,
                 state, transition, cfg, rendered, events, batch, touch,
                 pending_tap_time, last_effect_time, held, gesture_log, tap_ups,
                 dispatch_log, applied, budget, runs, probe, qlog, life, lock_log>>

\* a step of callback thread i that puts cmd on the queue
CbPut(i, cmd, at) ==
  /\ EnqueueBy("callback", cmd)
  /\ cb_threads' = [cb_threads EXCEPT ![i].pc = at]

\* _on_gesture_effect up to the SET_PETTING put: without a speak text, or while
\* another callback holds petting_lock, the callback returns at once
CbBegin ==
  \E i \in 1..Len(cb_threads) :
    /\ cb_threads[i].pc = "start"
    /\ IF gesture_effects[cb_threads[i].gesture].speak = 0 \/ petting_lock(cb_threads)
       THEN CbMove(i, "done")
       ELSE CbPut(i, SetPettingCmd(TRUE), "locked")

\* _on_gesture_effect: pause_listening() and set_listening(False)
CbMute ==
  \E i \in 1..Len(cb_threads) :
    /\ cb_threads[i].pc = "locked"
    /\ CbPut(i, SetListeningCmd(FALSE), "speaking")

\* _on_gesture_effect: tts_engine.speak(..., wait=True) returns, after however
\* long the playback took, and SET_PETTING False is put
CbSpeakReturns ==
  \E i \in 1..Len(cb_threads) :
    /\ cb_threads[i].pc = "speaking"
    /\ CbPut(i, SetPettingCmd(FALSE), "done")

\* the callback raises: an error in the callback itself reaches _cb_wrapper,
\* which logs it; an error of the TTS engine is caught and logged by
\* _on_gesture_effect, whose finally block releases petting_lock
CbRaises ==
  \E i \in 1..Len(cb_threads) :
    /\ cb_threads[i].pc \in {"start", "locked", "speaking"}
    /\ CbMove(i, "failed")

InitEffect ==
  /\ ProbeFree
  /\ cfg = [touch |-> FastTouch, emotion_images |-> {}, procedural |-> TRUE,
            listening_image |-> FALSE, effect_callback |-> TRUE]
  /\ budget = BudgetInit(GestureHorizon, MaxCallbackCmds)
  /\ runs = RunsIdle
  /\ probe = ProbeIdle
  /\ qlog = QlogInit({}, TRUE)

\* The loop under touch with an effect callback registered, and the threads it
\* starts for the callback.
NextEffect ==
  \/ Start
  \/ LoopStep
  \/ AdvanceTime
  \/ PointerDown
  \/ PointerUp
  \/ CbBegin
  \/ CbMute
  \/ CbSpeakReturns
  \/ CbRaises

SpecEffect == InitEffect /\ [][NextEffect]_vars

Blocked(th) == th.pc = "speaking"

\* C14: while a callback thread is alive, blocked in the playback or anywhere
\* else, the started loop can take its next step: it waits for no callback.
C14_LoopNotStalled ==
  (/\ pc \notin {"init", "exited"}
   /\ \E i \in 1..Len(cb_threads) : cb_threads[i].pc \notin {"done", "failed"})
    => ENABLED LoopStep

\* A callback is blocked in the playback; since the dispatch the loop has
\* drained the callback's SET_PETTING True, begun a later tick and drawn a frame.
C14_Witness ==
  /\ \E i \in 1..Len(cb_threads) : Blocked(cb_threads[i])
  /\ state.petting_active
  /\ \E k \in 1..Len(qlog.get) : qlog.get[k] = SetPettingCmd(TRUE)
  /\ last_time > state.last_gesture_time
  /\ pc = "poll"
  /\ rendered # NothingRendered

\* A callback has raised, every callback thread has ended and the queue is
\* empty: no SET_PETTING command is queued and no thread is left to put one.
FailedAndQuiet ==
  /\ \E i \in 1..Len(cb_threads) : cb_threads[i].pc = "failed"
  /\ \A i \in 1..Len(cb_threads) : cb_threads[i].pc \in {"done", "failed"}
  /\ command_queue = <<>>

\* C15 as stated: a callback that raises changes nothing of the loop thread,
\* and once the failure has been handled petting_active is not left at true.
C15_Original ==
  /\ [][(\E i \in 1..Len(cb_threads) :
           cb_threads[i].pc # "failed" /\ cb_threads'[i].pc = "failed")
        => (is_running' = is_running /\ pc' = pc)]_vars
  /\ [](FailedAndQuiet => ~state.petting_active)

\* ------------------------------------------------------- the petting lock
\* What the touch handlers keep between events, and what they resolve.
TouchTracking == <<touch, pending_tap_time, tap_ups, gesture_log, dispatch_log>>

\* C16: when petting_active is true at the poll, no pointer event is in the
\* polled batch, and from the poll to the end of the tick the touch-tracking
\* state does not change and no gesture is resolved or dispatched.
C16_PettingLock ==
  [][/\ (pc = "poll" /\ state.petting_active)
          => \A k \in 1..Len(batch') : ~IsTouchEvent(batch'[k])
     /\ (pc \in {"poll", "events"} /\ state.petting_active)
          => TouchTracking' = TouchTracking]_vars

\* The lock was set by a SET_PETTING True command, no gesture has been
\* resolved, and the pointer-down of the finger now on the screen was polled
\* and dropped: it is in no queue and was never tracked.
C16_Witness ==
  /\ state.petting_active
  /\ gesture_log = <<>>
  /\ dispatch_log = <<>>
  /\ held
  /\ events = <<>>
  /\ batch = <<>>
  /\ pc = "events"
  /\ touch.start_pos = NoPos

\* C17: applying SET_PETTING False leaves petting_active false; while it is
\* false the poll hands every queued pointer event to the handler, a
\* pointer-down starts tracking a press and the pointer-up of a tracked press
\* ends it and is classified.
C17_Release ==
  [][/\ (pc = "drain" /\ command_queue # <<>>
           /\ Head(command_queue) = SetPettingCmd(FALSE)
           /\ command_queue' = Tail(command_queue))
          => ~state'.petting_active
     /\ (pc = "poll" /\ ~state.petting_active) => batch' = events
     /\ (pc = "events" /\ ~state.petting_active /\ batch # <<>>
           /\ Head(batch).type = "MOUSEBUTTONDOWN")
          => (touch'.start_pos = Head(batch).pos /\ touch'.down_time = now)
     /\ (pc = "events" /\ ~state.petting_active /\ batch # <<>>
           /\ Head(batch).type = "MOUSEBUTTONUP" /\ touch.start_pos # NoPos)
          => /\ touch'.start_pos = NoPos
             /\ (gesture_log' # gesture_log \/ tap_ups' # tap_ups)]_vars

\* A tap was dispatched, which set the lock; SET_PETTING False was applied; a
\* pointer-up polled after the release was classified as a long press.
C17_Witness ==
  /\ gesture_log = <<"tap", "long_press">>
  /\ Len(dispatch_log) >= 1
  /\ dispatch_log[1].gesture = "tap"
  /\ budget.cmds > 0
  /\ command_queue = <<>>

\* C18: petting_active goes from true to false only in the drain, by applying
\* a SET_PETTING False command; no other step of the loop, and no passing of
\* time beyond gesture_busy_until, clears it.
C18_NoTimeout ==
  [][(state.petting_active /\ ~state'.petting_active)
       => /\ pc = "drain"
          /\ command_queue # <<>>
          /\ Head(command_queue) = SetPettingCmd(FALSE)]_vars

\* An accepted effect set the lock and no SET_PETTING command was ever put:
\* the busy window and the cooldown are over, the loop has begun a tick since,
\* and the lock is still set.
C18_Witness ==
  /\ dispatch_log # <<>>
  /\ state.petting_active
  /\ budget.cmds = 0
  /\ last_time >= state.gesture_busy_until
  /\ last_time - state.last_gesture_time >= cfg.touch.cooldown
  /\ pc = "events"

\* ------------------------------------------------------ effect arbitration
\* _trigger_gesture_effect called at chosen times under the shipped thresholds,
\* and under a configuration whose effect_busy_window (4 s) is longer than
\* the speech estimate of the configured texts, and under one whose
\* effect_cooldown (3 s) is longer than the gesture cooldown and the busy window.
ArbitrateTouch ==
  {DefaultTouch, [DefaultTouch EXCEPT !.effect_busy = LongBusyWindow],
   [DefaultTouch EXCEPT !.effect_cooldown = LongEffectCooldown]}

\* seconds between two calls: 0.4, 0.8 and 2.0
WaitSteps == {8, 16, 40}

\* a gesture whose effect has a speak text, one whose effect has none, and one
\* without a configured effect
ArbitrateGestures == {"long_press", "tap", "drag"}

Try(gesture, t) == [gesture |-> gesture, t |-> t]

InitArbitrate ==
  /\ ProbeFree
  /\ \E th \in ArbitrateTouch, cb \in BOOLEAN :
       cfg = [touch |-> th, emotion_images |-> {}, procedural |-> TRUE,
              listening_image |-> FALSE, effect_callback |-> cb]
  /\ budget = BudgetInit(ArbitrateHorizon, 0)
  /\ runs = RunsIdle
  /\ probe = [kind |-> "arbitrate", tries |-> <<>>]
  /\ qlog = QlogInit({}, TRUE)

\* one call of _trigger_gesture_effect(gesture) at time now
ATrigger ==
  /\ Len(probe.tries) < MaxTriggers
  /\ \E g \in ArbitrateGestures :
       /\ SetWorld(trigger_gesture_effect(World, g, now))
       /\ probe' = [probe EXCEPT !.tries = Append(@, Try(g, now))]
  /\ UNCHANGED <<now, is_running, pc, last_time, delta_time, transition, cfg,
                 rendered, batch, held, applied, budget, runs, life, lock_log>>

\* _execute_command applied to a SET_PETTING False command
ARelease ==
  /\ state.petting_active
  /\ state' = execute_command(state, transition, SetPettingCmd(FALSE)).state
  /\ UNCHANGED <<now, is_running, pc, last_time, delta_time, command_queue,
                 transition, cfg, rendered, events, batch, touch,
                 pending_tap_time, last_effect_time, held, gesture_log, tap_ups,
                 dispatch_log, applied, budget, runs, probe, qlog, cb_threads, life, lock_log>>

\* time passes between two calls
AWait ==
  /\ \E d \in WaitSteps :
       /\ now + d <= budget.max_time
       /\ now' = now + d
  /\ UNCHANGED <<is_running, pc, last_time, delta_time, command_queue, state,
                 transition, cfg, rendered, events, batch, touch,
                 pending_tap_time, last_effect_time, held, gesture_log, tap_ups,
                 dispatch_log, applied, budget, runs, probe, qlog, cb_threads, life, lock_log>>

NextArbitrate ==
  \/ ATrigger
  \/ ARelease
  \/ AWait

SpecArbitrate == InitArbitrate /\ [][NextArbitrate]_vars

\* (len(text) / 10 + 1.5) s in time units, for a text of len characters
SpeechEstimate(len) == 2 * len + 30

\* C19: a call that accepts an effect at time now leaves petting_active true
\* and gesture_busy_until = now + effect_busy_window, or, for an effect with a
\* speak text, now + max(effect_busy_window, len(text)/10 + 1.5); and no call
\* made before gesture_busy_until is accepted.
C19_BusyEstimate ==
  [][/\ Len(dispatch_log') > Len(dispatch_log) =>
          LET effect == gesture_effects[dispatch_log'[Len(dispatch_log')].gesture]
              window == cfg.touch.effect_busy
          IN /\ state'.petting_active
             /\ state'.gesture_busy_until =
                  now + (IF effect.speak > 0
                         THEN Max(window, SpeechEstimate(effect.speak))
                         ELSE window)
     /\ now < state.gesture_busy_until => dispatch_log' = dispatch_log]_vars

\* effect_busy_window 1.2 s and an 18-character text: a long_press accepted at
\* time Epoch is busy for 3.3 s; the lock was released, and a second long_press
\* 2.0 s after the first was not accepted.
C19_Witness ==
  /\ cfg.touch = DefaultTouch
  /\ probe.tries = <<Try("long_press", Epoch), Try("long_press", Epoch + 40)>>
  /\ Len(dispatch_log) = 1
  /\ ~state.petting_active
  /\ state.gesture_busy_until = Epoch + 66
  /\ state.last_gesture_time = Epoch

\* ------------------------------------------------- render priority, continued
\* The renderer can draw emotion e: procedurally from the parameters it resolves
\* for e, or from the sprite pair it resolves for e.
HasPose(c, e) == c.procedural \/ get_emotion_frame(c, e) # None

\* The pose the renderer resolves for emotion e.
PoseOf(c, e) ==
  IF c.procedural THEN get_emotion_params(e) ELSE get_emotion_frame(c, e)

DrawCall(c) == IF c.procedural THEN "render_procedural" ELSE "render_frame"

IsSpeakingPose(r, c, st) ==
  /\ r.call = DrawCall(c)
  /\ r.a = PoseOf(c, st.current_emotion)
  /\ r.b = None
  /\ r.speaking = IF c.procedural THEN "level"
                  ELSE IF st.speaking_frame_toggle THEN "speaking" ELSE "base"
  /\ ~r.listening

IsCrossFade(r, c, tr) ==
  LET u == update_result(tr, 0)
  IN /\ r.call = DrawCall(c)
     /\ r.a = PoseOf(c, u[1])
     /\ r.b = PoseOf(c, u[2])
     /\ r.alpha = u[3]
     /\ r.speaking = IF c.procedural THEN "zero" ELSE "base"
     /\ ~r.listening

IsStaticPose(r, c, st) ==
  /\ r.call = DrawCall(c)
  /\ r.a = PoseOf(c, st.current_emotion)
  /\ r.b = None
  /\ r.speaking = IF c.procedural THEN "zero" ELSE "base"
  /\ ~r.listening

\* the step in which _render_frame runs with is_listening false
RendersBelowListening == pc = "render" /\ pc' = "poll" /\ ~state.is_listening

\* C20 as stated: with is_listening false, a frame rendered while is_speaking
\* is the current emotion's speaking pose whatever the transition; with
\* is_speaking false and a transition active it is the cross-fade of (from, to)
\* at the transition's alpha; otherwise it is the static current emotion.
C20_Original ==
  [][RendersBelowListening =>
       IF state.is_speaking THEN IsSpeakingPose(rendered', cfg, state)
       ELSE IF is_transitioning(transition)
       THEN IsCrossFade(rendered', cfg, transition)
       ELSE IsStaticPose(rendered', cfg, state)]_vars

\* C20 amended: the same priority, each branch on condition that the renderer
\* can draw the emotions the branch needs (always in the procedural mode; in the
\* sprite mode when a sprite pair is loaded for the emotion or for "happy").
C20_PriorityBelowListening ==
  [][RendersBelowListening =>
       IF state.is_speaking
       THEN HasPose(cfg, state.current_emotion)
              => IsSpeakingPose(rendered', cfg, state)
       ELSE IF is_transitioning(transition)
       THEN (HasPose(cfg, update_result(transition, 0)[1])
               /\ HasPose(cfg, update_result(transition, 0)[2]))
              => IsCrossFade(rendered', cfg, transition)
       ELSE HasPose(cfg, state.current_emotion)
              => IsStaticPose(rendered', cfg, state)]_vars

\* A frame was rendered while speaking, not listening, with a transition in
\* progress: it is the speaking pose and shows nothing of the transition.
C20_Witness ==
  /\ pc = "poll"
  /\ ~state.is_listening
  /\ state.is_speaking
  /\ is_transitioning(transition)
  /\ HasPose(cfg, state.current_emotion)
  /\ IsSpeakingPose(rendered, cfg, state)

\* ------------------------------------------------- start, stop and cleanup
\* stop(): returns at once when is_running is false; otherwise clears the flag
\* and joins the loop thread. at is the loop's position at the call.
stop_call_keep_flag(l, running, at) ==
  IF ~running
  THEN [life |-> [l EXCEPT !.caller = "stopped"], is_running |-> running]
  ELSE [life |-> [l EXCEPT !.caller = "joining", !.stop_pc = at],
        is_running |-> running]

stop_call(l, running, at) ==
  IF ~running
  THEN [life |-> [l EXCEPT !.caller = "stopped"], is_running |-> running]
  ELSE [life |-> [l EXCEPT !.caller = "joining", !.stop_pc = at],
        is_running |-> FALSE]

\* what a step of the controlling thread leaves alone
ControlFrame ==
  UNCHANGED <<now, pc, last_time, delta_time, command_queue, state, transition,
              cfg, rendered, events, batch, touch, pending_tap_time,
              last_effect_time, held, gesture_log, tap_ups, dispatch_log,
              applied, budget, runs, probe, qlog, cb_threads, lock_log>>

\* stop() called by the application
Stop ==
  /\ life.caller = "idle"
  /\ life' = stop_call(life, is_running, pc).life
  /\ is_running' = stop_call(life, is_running, pc).is_running
  /\ ControlFrame

\* cleanup() up to its call of stop()
Cleanup ==
  /\ life.caller = "idle"
  /\ life' = [stop_call(life, is_running, pc).life EXCEPT !.in_cleanup = TRUE]
  /\ is_running' = stop_call(life, is_running, pc).is_running
  /\ ControlFrame

\* display_thread.join(timeout=2.0) returns because the thread has ended
JoinReturns ==
  /\ life.caller = "joining"
  /\ pc = "exited"
  /\ life' = [life EXCEPT !.caller = "stopped"]
  /\ UNCHANGED is_running
  /\ ControlFrame

\* display_thread.join(timeout=2.0) returns because 2.0 s have passed. How long
\* a step of the loop takes is not bounded, so the loop can be at any position.
JoinTimesOut ==
  /\ life.caller = "joining"
  /\ pc # "exited"
  /\ life' = [life EXCEPT !.caller = "stopped", !.timed_out = TRUE]
  /\ UNCHANGED is_running
  /\ ControlFrame

\* cleanup() after stop() has returned: renderer.cleanup() and GPIO.cleanup()
Release ==
  /\ life.caller = "stopped"
  /\ life.in_cleanup
  /\ life' = [life EXCEPT !.caller = "cleaned", !.renderer = "released"]
  /\ UNCHANGED is_running
  /\ ControlFrame

\* the window is closed: pygame queues QUIT
WindowQuit ==
  /\ pc = "render"
  /\ is_running
  /\ Len(events) < MaxEvents
  /\ events' = Append(events, Event("QUIT", NoPos, FALSE, 0))
  /\ UNCHANGED <<now, is_running, pc, last_time, delta_time, command_queue,
                 state, transition, cfg, rendered, batch, touch,
                 pending_tap_time, last_effect_time, held, gesture_log, tap_ups,
                 dispatch_log, applied, budget, runs, probe, qlog, cb_threads,
                 life, lock_log>>

ExitCallbacks == {"none", "returns", "raises"}

InitLifecycle ==
  /\ DisplayFresh
  /\ cfg = IdleCfg
  /\ budget = BudgetInit(LifeHorizon, 0)
  /\ runs = RunsIdle
  /\ probe = ProbeIdle
  /\ qlog = QlogInit(Callers, FALSE)
  /\ life \in {LifeInit(cb) : cb \in ExitCallbacks}
  /\ lock_log = LockLogInit(FALSE)

\* The loop, the clock, the window and the thread that stops or cleans up.
NextLifecycle ==
  \/ Start
  \/ LoopBegin
  \/ LoopTop
  \/ ProcessCommandsDone
  \/ CheckGpioExit
  \/ UpdateState
  \/ RenderFrame
  \/ PollEvents
  \/ HandleEvent
  \/ ClockTick
  \/ AdvanceTime
  \/ WindowQuit
  \/ Stop
  \/ Cleanup
  \/ JoinReturns
  \/ JoinTimesOut
  \/ Release

SpecLifecycle == InitLifecycle /\ [][NextLifecycle]_vars

\* C21: the step of the loop that reads the hard-stop signal asserted calls the
\* exit callback, if one is registered, exactly once, logs the error if the
\* callback raises, clears is_running and ends the loop in that same step;
\* with the signal not asserted the callback is not called and the tick goes
\* on. The callback is called at no other step.
C21_HardStop ==
  [][/\ (pc = "gpio" /\ pc' # "gpio") =>
          IF life'.pressed
          THEN /\ pc' = "exited"
               /\ ~is_running'
               /\ life'.exit_calls = life.exit_calls
                    + (IF life.exit_callback = "none" THEN 0 ELSE 1)
               /\ life'.exit_errors = life.exit_errors
                    + (IF life.exit_callback = "raises" THEN 1 ELSE 0)
          ELSE /\ pc' = "update"
               /\ life'.exit_calls = life.exit_calls
     /\ life'.exit_calls # life.exit_calls => pc = "gpio"
     /\ life'.exit_calls <= 1]_vars

\* The hard stop was read asserted with a registered exit callback that
\* raised: the error was logged and the loop has ended.
C21_Witness ==
  /\ life.pressed
  /\ life.exit_callback = "raises"
  /\ life.exit_calls = 1
  /\ life.exit_errors = 1
  /\ pc = "exited"
  /\ ~is_running
  /\ last_time > Epoch

\* The controlling thread's join returns: the thread has ended or 2.0 s passed.
JoinEnds == JoinReturns \/ JoinTimesOut

\* The loop thread is scheduled, and a join returns when it can.
SpecShutdown ==
  InitLifecycle /\ [][NextLifecycle]_vars /\ WF_vars(LoopThread) /\ WF_vars(JoinEnds)

\* the order of the steps within a tick, and the two ways out of the loop
TickOrder ==
  {<<"begin", "top">>, <<"top", "drain">>, <<"drain", "gpio">>,
   <<"gpio", "update">>, <<"gpio", "exited">>, <<"update", "render">>,
   <<"render", "poll">>, <<"poll", "events">>, <<"events", "top">>,
   <<"top", "exited">>}

\* C22: stop() on a running engine clears is_running and starts the join; from
\* then on the loop takes the remaining steps of its tick in their order, leaves
\* from the top of the loop without beginning another tick, and its thread
\* ends; and the join returns.
C22_Shutdown ==
  /\ [][/\ (life.caller = "idle" /\ life'.caller # "idle" /\ is_running)
             => (~is_running' /\ life'.caller = "joining" /\ pc' = pc)
        /\ (pc' # pc /\ pc # "init") => <<pc, pc'>> \in TickOrder
        /\ (~is_running /\ pc = "top" /\ pc' # pc) => pc' = "exited"]_vars
  /\ (life.caller = "joining") ~> (pc = "exited")
  /\ (life.caller = "joining") ~> (life.caller \in {"stopped", "cleaned"})

\* stop() was called while the loop was updating the model; the loop finished
\* that tick, ended, and the join returned without timing out.
C22_Witness ==
  /\ life.stop_pc = "update"
  /\ ~life.in_cleanup
  /\ life.caller = "stopped"
  /\ ~life.timed_out
  /\ ~life.pressed
  /\ pc = "exited"

\* the loop thread has not been started or has ended
ThreadEnded == pc \in {"init", "exited"}

\* C23 as stated: the renderer is released only when the loop thread has
\* ended, and once the renderer is released the loop thread takes no step.
C23_Original ==
  [][/\ (life.renderer = "ready" /\ life'.renderer = "released") => ThreadEnded
     /\ life.renderer = "released" => ~LoopThread]_vars

\* the renderer is released without a timed-out join while the loop thread,
\* which ended its own loop on QUIT, is still inside its last tick
C23_QuitRace ==
  /\ life.renderer = "released"
  /\ ~life.timed_out
  /\ ~ThreadEnded

\* ------------------------------------------------------------ set_speaking
\* Levels a caller passes to set_speaking, in thousandths: below the range,
\* the ends of the range, inside it, above it.
SpeakingLevels == {0 - 500, 0, 300, AlphaOne, AlphaOne + 500}

\* set_speaking(active, level) with a level given
set_speaking_level ==
  \E a \in BOOLEAN, l \in SpeakingLevels : Enqueue(SetSpeakingCmd(a, TRUE, l))

InitSpeaking ==
  /\ ProbeFree
  /\ cfg = IdleCfg
  /\ budget = BudgetInit(0, MaxProducerCmds)
  /\ runs = RunsIdle
  /\ probe = ProbeIdle
  /\ qlog = QlogInit(Callers, TRUE)

\* The loop and a thread calling set_speaking with and without a level.
NextSpeaking ==
  \/ Start
  \/ LoopBegin
  \/ LoopTop
  \/ ExecuteCommand
  \/ ProcessCommandsDone
  \/ CheckGpioExit
  \/ UpdateState
  \/ RenderFrame
  \/ PollEvents
  \/ ClockTick
  \/ set_speaking
  \/ set_speaking_level

SpecSpeaking == InitSpeaking /\ [][NextSpeaking]_vars

\* the level the claim expects for a SET_SPEAKING command
ExpectedLevel(cmd) ==
  IF ~cmd.has_level THEN (IF cmd.active THEN AlphaOne ELSE 0)
  ELSE IF cmd.level < 0 THEN 0
  ELSE IF cmd.level > AlphaOne THEN AlphaOne
  ELSE cmd.level

\* C24: the step that applies SetSpeaking{active, level} leaves is_speaking
\* equal to active and speaking_level_target equal to the level clamped to
\* [0,1], an absent level counting as 1.0 when active and 0.0 when inactive;
\* and speaking_level_target is within [0,1] in every reachable state.
C24_SetSpeaking ==
  /\ [][(/\ pc = "drain"
         /\ command_queue # <<>>
         /\ command_queue' = Tail(command_queue)
         /\ Head(command_queue).type = "SET_SPEAKING")
        => /\ state'.is_speaking = Head(command_queue).active
           /\ state'.speaking_level_target = ExpectedLevel(Head(command_queue))]_vars
  /\ [](state.speaking_level_target \in 0..AlphaOne)

\* A level above the range, a level below it and an absent level of an active
\* command have been applied.
C24_Witness ==
  /\ Len(qlog.get) = 2
  /\ qlog.get[1].has_level /\ qlog.get[1].level > AlphaOne
  /\ qlog.get[2].has_level /\ qlog.get[2].level < 0 /\ qlog.get[2].active
  /\ state.is_speaking
  /\ state.speaking_level_target = 0

\* ----------------------------------------------------------- missing assets
\* Sprite sets loaded from the image directory: all emotions of the presets,
\* one without "happy", none.
AssetImageSets == ImageSets \cup {{"sad"}}

AssetConfigs ==
  {[touch |-> DefaultTouch, emotion_images |-> im, procedural |-> p,
    listening_image |-> FALSE, effect_callback |-> FALSE] :
      im \in AssetImageSets, p \in BOOLEAN}

InitAssets ==
  /\ ProbeFree
  /\ cfg \in AssetConfigs
  /\ budget = BudgetInit(Horizon, MaxCmds)
  /\ runs = RunsIdle
  /\ probe = ProbeIdle
  /\ qlog = QlogInit(Callers, FALSE)

\* The loop, the clock, and a thread asking for known and unknown emotions and
\* for the speaking animation.
NextAssets ==
  \/ Start
  \/ LoopBegin
  \/ LoopTop
  \/ ExecuteCommand
  \/ ProcessCommandsDone
  \/ CheckGpioExit
  \/ UpdateState
  \/ RenderFrame
  \/ PollEvents
  \/ ClockTick
  \/ AdvanceTime
  \/ set_emotion
  \/ set_speaking

SpecAssets == InitAssets /\ [][NextAssets]_vars

\* what the claim expects of a sprite lookup and of a parameter lookup
FallbackFrame(images, emotion) ==
  IF emotion \in images THEN emotion
  ELSE IF "happy" \in images THEN "happy" ELSE None

FallbackParams(emotion) == IF emotion \in PresetKeys THEN emotion ELSE "happy"

\* _render_frame is executed
RenderStep == pc = "render" /\ pc' = "poll"

\* the emotions whose sprites the branch of _render_frame that is reached asks for
RequestedSprites ==
  IF state.is_speaking THEN {state.current_emotion}
  ELSE IF is_transitioning(transition)
  THEN {transition.from_emotion, transition.to_emotion}
  ELSE {state.current_emotion}

C25_WitnessHappy ==
  /\ pc = "poll"
  /\ ~cfg.procedural
  /\ state.current_emotion = "bogus"
  /\ rendered.call = "render_frame"
  /\ rendered.a = "happy"

\* ------------------------------------------------- gesture without an effect
\* a call of _trigger_gesture_effect has been made in this step
TriggerStep == Len(probe'.tries) > Len(probe.tries)

\* the gesture of the call made in this step
Triggered == probe'.tries[Len(probe'.tries)].gesture

\* C26 as stated: a call for a gesture without a configured effect dispatches
\* nothing and leaves last_gesture_time, gesture_busy_until and petting_active
\* as they were.
C26_Original ==
  [][(TriggerStep /\ Triggered \notin DOMAIN gesture_effects) =>
       /\ dispatch_log' = dispatch_log
       /\ command_queue' = command_queue
       /\ cb_threads' = cb_threads
       /\ state'.last_gesture_time = state.last_gesture_time
       /\ state'.gesture_busy_until = state.gesture_busy_until
       /\ state'.petting_active = state.petting_active]_vars

\* A drag, which has no configured effect, and 0.4 s later a tap: the tap
\* was rejected by the gesture cooldown that the drag started.
C26_Rejected ==
  /\ probe.kind = "arbitrate"
  /\ probe.tries = <<Try("drag", Epoch), Try("tap", Epoch + 8)>>
  /\ dispatch_log = <<>>
  /\ state.last_gesture_time = Epoch

\* The same tap not preceded by the drag is accepted.
C26_Accepted ==
  /\ probe.kind = "arbitrate"
  /\ probe.tries = <<Try("tap", Epoch + 8)>>
  /\ Len(dispatch_log) = 1

\* ------------------------------------------------ effect emotion transition
\* an effect is accepted in this step
AcceptStep == Len(dispatch_log') > Len(dispatch_log)

\* the effect accepted in this step
Accepted == gesture_effects[dispatch_log'[Len(dispatch_log')].gesture]

\* the loop takes the command at the head of the queue and applies it
ExecuteStep ==
  /\ pc = "drain"
  /\ command_queue # <<>>
  /\ command_queue' = Tail(command_queue)

\* C27 as stated: the step that accepts an effect with an emotion starts a
\* 0.4 s transition to that emotion.
C27_Original ==
  [][(AcceptStep /\ Accepted.emotion # None) =>
       /\ transition'.is_active
       /\ transition'.to_emotion = Accepted.emotion
       /\ transition'.duration = EffectEmotionDuration
       /\ transition'.elapsed_time = 0]_vars

\* C27, amended: the step that accepts an effect with an emotion, which is
\* part of the update or of the event handling of a tick, puts a SetEmotion
\* command of 0.4 s for that emotion on the queue and starts no transition;
\* the step that applies such a command, in the drain of a later tick, starts
\* a 0.4 s transition from the current emotion to that emotion, unless that
\* emotion is the current one and no transition is active, in which case
\* nothing changes.
C27_Deferred ==
  [][/\ (AcceptStep /\ Accepted.emotion # None) =>
          /\ pc \in {"update", "events"}
          /\ Len(command_queue') > Len(command_queue)
          /\ \E i \in (Len(command_queue) + 1)..Len(command_queue') :
               command_queue'[i] = SetEmotionCmd(Accepted.emotion, EffectEmotionDuration)
          /\ transition'.is_active =>
               /\ transition.is_active
               /\ transition'.to_emotion = transition.to_emotion
               /\ transition'.elapsed_time >= transition.elapsed_time
          /\ state'.target_emotion \in {state.target_emotion, None}
     /\ (/\ ExecuteStep
         /\ Head(command_queue).type = "SET_EMOTION"
         /\ Head(command_queue).duration = EffectEmotionDuration) =>
          IF Head(command_queue).emotion = state.current_emotion /\ ~transition.is_active
          THEN transition' = transition /\ state' = state
          ELSE /\ transition'.is_active
               /\ transition'.from_emotion = state.current_emotion
               /\ transition'.to_emotion = Head(command_queue).emotion
               /\ transition'.duration = EffectEmotionDuration
               /\ transition'.elapsed_time = 0
               /\ state'.target_emotion = Head(command_queue).emotion]_vars

\* A tap has been accepted, and on the next tick the loop has applied the
\* command and the transition to the tap's emotion has begun.
C27_Witness ==
  /\ Len(dispatch_log) = 1
  /\ dispatch_log[1].gesture = "tap"
  /\ command_queue = <<>>
  /\ transition.is_active
  /\ transition.to_emotion = gesture_effects["tap"].emotion
  /\ transition.duration = EffectEmotionDuration
  /\ transition.elapsed_time = 0
  /\ pc = "drain"

\* A long_press, whose emotion is the one already shown, has been accepted
\* and its command applied: no transition.
C27_AlreadyShowing ==
  /\ Len(dispatch_log) = 1
  /\ dispatch_log[1].gesture = "long_press"
  /\ <<gesture_effects["long_press"].emotion, TRUE>> \in applied
  /\ ~transition.is_active

\* ----------------------------------------------------------- lock discipline
InitLocks ==
  /\ DisplayFresh
  /\ life = LifeInit("none")
  /\ lock_log = LockLogInit(TRUE)
  /\ cfg \in {c \in Configs : c.procedural /\ c.touch = FastTouch}
  /\ budget = BudgetInit(GestureHorizon, MaxPettingCmds)
  /\ runs = RunsIdle
  /\ probe = ProbeIdle
  /\ qlog = QlogInit(Callers, FALSE)

\* The loop under touch, with the lock operations of each step recorded.
SpecLocks == InitLocks /\ [][NextGesture]_vars

\* how many times the lock is held before the i-th operation of ops
HeldBefore(ops, i) ==
  Cardinality({j \in 1..(i - 1) : ops[j] = "acquire"})
    - Cardinality({j \in 1..(i - 1) : ops[j] = "release"})

\* ops never acquires the lock while it is held, releases it only while held,
\* never polls or dispatches while it is held, and ends with the lock free
Disciplined(ops) ==
  /\ \A i \in 1..Len(ops) :
       IF ops[i] = "release" THEN HeldBefore(ops, i) = 1
       ELSE HeldBefore(ops, i) = 0
  /\ HeldBefore(ops, Len(ops) + 1) = 0

\* C28: in every step of the loop the state lock is acquired only while free,
\* is free again when the step ends (so it is free while the pointer events
\* are polled), and is free whenever an effect is dispatched.
C28_LockDiscipline == Disciplined(lock_log.ops)

\* _update_state has released the lock and then dispatched the effect of a
\* pending tap.
C28_Witness ==
  /\ lock_log.ops = <<"acquire", "release", "dispatch">>
  /\ pc = "render"
  /\ Len(dispatch_log) = 1

\* ------------------------------------------------------------- tick ordering
\* the SET_LISTENING commands the loop has applied
ListeningApplied == SelectSeq(qlog.get, LAMBDA c : c.type = "SET_LISTENING")

\* C29: the loop leaves the drain only with the queue empty, and then polls
\* the hard stop, updates and renders, in that order; so while it polls the
\* hard stop, updates and renders, every command put before the tick began has
\* been applied, and the frame drawn shows the listening state that the last
\* applied SET_LISTENING command set.
C29_TickOrdering ==
  /\ [](pc \in {"gpio", "update", "render"} =>
          /\ Len(qlog.get) >= qlog.mark
          /\ SubSeq(qlog.get, 1, qlog.mark) = SubSeq(PutCmds, 1, qlog.mark)
          /\ state.is_listening =
               (IF ListeningApplied = <<>> THEN FALSE
                ELSE ListeningApplied[Len(ListeningApplied)].active))
  /\ [][/\ (pc = "top" /\ pc' # pc) => pc' \in {"drain", "exited"}
        /\ (pc = "drain" /\ pc' # pc) => (command_queue = <<>> /\ pc' = "gpio")
        /\ (pc = "gpio" /\ pc' # pc) => pc' \in {"update", "exited"}
        /\ (pc = "update" /\ pc' # pc) => pc' = "render"
        /\ RenderStep => rendered'.listening = state.is_listening]_vars

\* Two commands were put before the tick began, the second SET_LISTENING
\* True; the tick has applied both and drawn the listening frame.
C29_Witness ==
  /\ pc = "poll"
  /\ qlog.mark = 2
  /\ Len(qlog.get) = 2
  /\ qlog.get[2] = SetListeningCmd(TRUE)
  /\ rendered.listening

\* --------------------------------------------------------- travel of a press
MaxTravelEvents == 4
TravelHorizon == 2

TravelPositions == {<<0, 0>>, <<30, 0>>, <<30, 40>>}

\* pointer events as pygame delivers them: down, move with the button held,
\* move without, up
TravelEvents ==
  {Event(ty, p, ty = "MOUSEMOTION", 0) : ty \in TouchTypes, p \in TravelPositions}
  \cup {Event("MOUSEMOTION", <<30, 0>>, FALSE, 0)}

\* what _handle_touch_event passes to _classify_gesture for the pointer-up ev
classify_args(w, ev) ==
  [dist |-> w.touch.drag_distance,
   dx |-> ev.pos[1] - w.touch.start_pos[1],
   dy |-> ev.pos[2] - w.touch.start_pos[2]]

NoneReceived == [dist |-> 0, dx |-> 0, dy |-> 0]

\* path: the position of the most recent processed pointer-down followed by
\* the positions of the processed moves made with the button held since;
\* received: the arguments of the last call of the classifier; calls: how
\* many calls were made
InitTravel ==
  /\ ProbeFree
  /\ cfg = [IdleCfg EXCEPT !.touch = DefaultTouch]
  /\ budget = BudgetInit(TravelHorizon, 0)
  /\ runs = RunsIdle
  /\ qlog = QlogInit(Callers, FALSE)
  /\ probe = [kind |-> "travel", count |-> 0, last |-> Event("none", NoPos, FALSE, 0),
              path |-> <<>>, received |-> NoneReceived, calls |-> 0]

\* _handle_touch_event(ev) at time now
TravelEvent ==
  /\ probe.count < MaxTravelEvents
  /\ \E ev \in TravelEvents :
       LET processed == ~state.petting_active
           classifies == processed /\ ev.type = "MOUSEBUTTONUP" /\ touch.start_pos # NoPos
       IN /\ SetWorld(handle_touch_event(World, ev, now))
          /\ probe' = [probe EXCEPT
                         !.count = @ + 1,
                         !.last = ev,
                         !.path = IF ~processed THEN @
                                  ELSE IF ev.type = "MOUSEBUTTONDOWN" THEN <<ev.pos>>
                                  ELSE IF ev.type = "MOUSEBUTTONUP" THEN <<>>
                                  ELSE IF ev.buttons /\ @ # <<>> THEN Append(@, ev.pos)
                                  ELSE @,
                         !.received = IF classifies THEN classify_args(World, ev) ELSE @,
                         !.calls = IF classifies THEN @ + 1 ELSE @]
  /\ UNCHANGED <<now, is_running, pc, last_time, delta_time, transition, cfg,
                 rendered, batch, held, applied, budget, runs, life, lock_log>>

\* a SET_PETTING command is applied between two events
TravelPetting ==
  /\ \E a \in BOOLEAN :
       /\ a # state.petting_active
       /\ state' = execute_command(state, transition, SetPettingCmd(a)).state
  /\ UNCHANGED <<now, is_running, pc, last_time, delta_time, command_queue,
                 transition, cfg, rendered, events, batch, touch,
                 pending_tap_time, last_effect_time, held, gesture_log, tap_ups,
                 dispatch_log, applied, budget, runs, probe, qlog, cb_threads, life, lock_log>>

\* time passes between two events
TravelWait ==
  /\ now < budget.max_time
  /\ now' = now + 1
  /\ UNCHANGED <<is_running, pc, last_time, delta_time, command_queue, state,
                 transition, cfg, rendered, events, batch, touch,
                 pending_tap_time, last_effect_time, held, gesture_log, tap_ups,
                 dispatch_log, applied, budget, runs, probe, qlog, cb_threads, life, lock_log>>

NextTravel ==
  \/ TravelEvent
  \/ TravelPetting
  \/ TravelWait

SpecTravel == InitTravel /\ [][NextTravel]_vars

Manhattan(p, q) == Abs(q[1] - p[1]) + Abs(q[2] - p[2])

\* the sum of the Manhattan lengths of the steps of a path
PathLength(path) ==
  LET upto[i \in 1..Len(path)] ==
        IF i = 1 THEN 0 ELSE upto[i - 1] + Manhattan(path[i - 1], path[i])
  IN IF path = <<>> THEN 0 ELSE upto[Len(path)]

\* C30: a processed pointer-down sets the start and down positions to its
\* position, the down time to the time of handling, and dist to 0; a
\* processed move with the button held after a processed down adds the
\* Manhattan length of the step from the previous position; at a processed
\* pointer-up the classifier receives the sum of the step lengths since the
\* most recent processed pointer-down and the displacement from that down
\* position to the up position, and the tracking is reset; an event that
\* arrives while petting_active is set changes nothing.
C30_Travel ==
  /\ [](touch.start_pos # NoPos =>
          /\ probe.path # <<>>
          /\ touch.start_pos = probe.path[1]
          /\ touch.down_pos = probe.path[Len(probe.path)]
          /\ touch.drag_distance = PathLength(probe.path))
  /\ [][probe'.count > probe.count =>
          LET ev == probe'.last
          IN IF state.petting_active THEN touch' = touch /\ probe'.calls = probe.calls
             ELSE /\ ev.type = "MOUSEBUTTONDOWN" =>
                       touch' = [drag_distance |-> 0, start_pos |-> ev.pos,
                                 down_pos |-> ev.pos, down_time |-> now]
                  /\ (ev.type = "MOUSEMOTION" /\ ev.buttons /\ probe.path # <<>>) =>
                       touch'.drag_distance =
                         touch.drag_distance
                           + Manhattan(probe.path[Len(probe.path)], ev.pos)
                  /\ (ev.type = "MOUSEBUTTONUP" /\ probe.path # <<>>) =>
                       /\ probe'.calls = probe.calls + 1
                       /\ probe'.received =
                            [dist |-> PathLength(probe.path),
                             dx |-> ev.pos[1] - probe.path[1][1],
                             dy |-> ev.pos[2] - probe.path[1][2]]
                       /\ touch'.start_pos = NoPos
                       /\ touch'.drag_distance = 0]_vars

\* A press went down at (0,0), moved to (30,0) and to (30,40) and came up at
\* (30,0): the classifier received a travel of 70 and a displacement of (30,0).
C30_Witness ==
  /\ probe.kind = "travel"
  /\ probe.last = Event("MOUSEBUTTONUP", <<30, 0>>, FALSE, 0)
  /\ probe.count = 4
  /\ probe.calls = 1
  /\ probe.received = [dist |-> 70, dx |-> 30, dy |-> 0]

\* ------------------------------------------------------- start_transition
\* C31: start_transition(from, to, duration) leaves the controller active
\* with elapsed time 0, alpha 0, the given emotions and the duration
\* max(0.1, duration), also for a duration of 0 or below; the stored duration
\* is at least 0.1 in every reachable state, so update divides by a positive
\* number.
C31_StartClamped ==
  /\ [](transition.duration >= MinDuration /\ transition.duration > 0)
  /\ [][probe'.starts > probe.starts =>
          /\ transition'.is_active
          /\ transition'.elapsed_time = 0
          /\ transition'.alpha = 0
          /\ transition'.from_emotion = probe'.from
          /\ transition'.to_emotion = probe'.to
          /\ transition'.duration =
               (IF probe'.requested < MinDuration THEN MinDuration
                ELSE probe'.requested)]_vars

\* A transition was started a second time, with a negative duration: the
\* controller is active at alpha 0 with the duration 0.1 s.
C31_Witness ==
  /\ probe.kind = "transition"
  /\ probe.starts = 2
  /\ probe.requested < 0
  /\ probe.steps = 0
  /\ transition.is_active
  /\ transition.alpha = 0
  /\ transition.elapsed_time = 0
  /\ transition.duration = MinDuration

\* ------------------------------------------ frame of the non-emotion commands
\* DisplayState as commands and gestures can have left it: listening,
\* speaking and petting each on or off, no gesture so far or one accepted at
\* time Epoch
FrameStates ==
  {[DisplayStateInit EXCEPT !.is_listening = l, !.is_speaking = sp,
                            !.speaking_level_target = IF sp THEN AlphaOne ELSE 0,
                            !.petting_active = p,
                            !.last_gesture_time = IF g THEN Epoch ELSE 0,
                            !.gesture_busy_until = IF g THEN Epoch + EffectBusyWindow ELSE 0] :
     l \in BOOLEAN, sp \in BOOLEAN, p \in BOOLEAN, g \in BOOLEAN}

\* the controller idle, and in a transition
FrameTransitions ==
  {TransitionInit, start_transition(TransitionInit, "happy", "sad", DefaultDuration)}

\* SET_LISTENING, SET_PETTING, APPLY_EFFECT, a command of a type the loop does
\* not know and one without a type
FrameCmds ==
  {SetListeningCmd(a) : a \in BOOLEAN} \cup {SetPettingCmd(a) : a \in BOOLEAN}
  \cup {ApplyEffectCmd("long_press"),
        Cmd("SET_VOLUME", None, 0, TRUE, FALSE, 0, None),
        Cmd(None, None, 0, TRUE, FALSE, 0, None)}

InitFrame ==
  /\ ProbeFree
  /\ cfg = IdleCfg
  /\ budget = BudgetInit(0, 0)
  /\ runs = RunsIdle
  /\ qlog = QlogInit(Callers, FALSE)
  /\ \E st \in FrameStates, tr \in FrameTransitions, c \in FrameCmds :
       probe = [kind |-> "frame", cmd |-> c, done |-> FALSE,
                state |-> st, transition |-> tr]

\* the display is brought to the state drawn for it
FrameSetUp ==
  /\ probe.kind = "frame"
  /\ state = DisplayStateInit /\ transition = TransitionInit
  /\ ~probe.done
  /\ <<probe.state, probe.transition>> # <<state, transition>>
  /\ state' = probe.state
  /\ transition' = probe.transition
  /\ UNCHANGED <<now, is_running, pc, last_time, delta_time, command_queue,
                 cfg, rendered, events, batch, touch, pending_tap_time,
                 last_effect_time, held, gesture_log, tap_ups, dispatch_log,
                 applied, budget, runs, probe, qlog, cb_threads, life, lock_log>>

\* _execute_command(cmd)
FrameApply ==
  /\ probe.kind = "frame"
  /\ ~probe.done
  /\ <<probe.state, probe.transition>> = <<state, transition>>
  /\ state' = execute_command(state, transition, probe.cmd).state
  /\ transition' = execute_command(state, transition, probe.cmd).transition
  /\ probe' = [probe EXCEPT !.done = TRUE]
  /\ UNCHANGED <<now, is_running, pc, last_time, delta_time, command_queue,
                 cfg, rendered, events, batch, touch, pending_tap_time,
                 last_effect_time, held, gesture_log, tap_ups, dispatch_log,
                 applied, budget, runs, qlog, cb_threads, life, lock_log>>

NextFrame == FrameSetUp \/ FrameApply

SpecFrame == InitFrame /\ [][NextFrame]_vars

\* C32: applying SET_LISTENING changes is_listening only, applying
\* SET_PETTING changes petting_active only, and applying APPLY_EFFECT or a
\* command of an unknown type changes nothing of the display state; none of
\* them changes the transition controller.
C32_Frame ==
  [][(probe'.done /\ ~probe.done) =>
       /\ transition' = transition
       /\ state' =
            (IF probe.cmd.type = "SET_LISTENING"
             THEN [state EXCEPT !.is_listening = probe.cmd.active]
             ELSE IF probe.cmd.type = "SET_PETTING"
             THEN [state EXCEPT !.petting_active = probe.cmd.active]
             ELSE state)]_vars

\* SET_PETTING False has been applied with the lock set, a busy window open
\* and a transition active: the lock is released, the window, the cooldown and
\* the transition stand.
C32_Witness ==
  /\ probe.kind = "frame"
  /\ probe.done
  /\ probe.cmd = SetPettingCmd(FALSE)
  /\ probe.state.petting_active
  /\ ~state.petting_active
  /\ state.gesture_busy_until = Epoch + EffectBusyWindow
  /\ state.last_gesture_time = Epoch
  /\ transition.is_active

\* ------------------------------------------------------------- pending tap
\* how many times gesture g has been resolved
Resolved(g) == Len(SelectSeq(gesture_log, LAMBDA x : x = g))

\* C33 as stated: every pointer-up taken by the tap branch is accounted for
\* exactly once: it is the tap still pending, or it was fired as a plain tap,
\* or it is one of the two halves of a double_tap.
C33_Original ==
  Len(tap_ups) = Resolved("tap") + 2 * Resolved("double_tap")
                   + (IF pending_tap_time > 0 THEN 1 ELSE 0)

\* ------------------------------------------------ restart of a transition
InitRestart ==
  /\ ProbeFree
  /\ cfg = IdleCfg
  /\ budget = BudgetInit(Horizon, MaxCmds)
  /\ runs = RunsIdle
  /\ probe = ProbeIdle
  /\ qlog = QlogInit(Callers, TRUE)

\* The loop, the clock and a thread calling set_emotion.
NextRestart ==
  \/ Start
  \/ LoopBegin
  \/ LoopTop
  \/ ExecuteCommand
  \/ ProcessCommandsDone
  \/ CheckGpioExit
  \/ UpdateState
  \/ RenderFrame
  \/ PollEvents
  \/ ClockTick
  \/ AdvanceTime
  \/ set_emotion

SpecRestart == InitRestart /\ [][NextRestart]_vars

\* C34: applying SET_EMOTION{Y, d} while a transition is active, also when Y
\* is its target, leaves a transition from current_emotion to Y with elapsed
\* time 0 and alpha 0, and leaves current_emotion as it was; current_emotion
\* changes only in a step that completes a transition, and then to the target
\* of that transition.
C34_Restart ==
  [][/\ (/\ ExecuteStep
         /\ Head(command_queue).type = "SET_EMOTION"
         /\ transition.is_active) =>
          /\ transition'.is_active
          /\ transition'.from_emotion = state.current_emotion
          /\ transition'.to_emotion = Head(command_queue).emotion
          /\ transition'.elapsed_time = 0
          /\ transition'.alpha = 0
          /\ state'.current_emotion = state.current_emotion
          /\ state'.target_emotion = Head(command_queue).emotion
     /\ state'.current_emotion # state.current_emotion =>
          /\ transition.is_active
          /\ ~transition'.is_active
          /\ state'.current_emotion = transition.to_emotion]_vars

\* Two SET_EMOTION sad commands have been applied, the second after time had
\* passed and while the transition to sad was active: the transition is at its
\* beginning again and happy is still current.
C34_Witness ==
  /\ qlog.get = <<SetEmotionCmd("sad", 3), SetEmotionCmd("sad", 3)>>
  /\ pc = "drain"
  /\ delta_time > 0
  /\ state.current_emotion = "happy"
  /\ transition.is_active
  /\ transition.to_emotion = "sad"
  /\ transition.elapsed_time = 0
  /\ transition.alpha = 0

\* ------------------------------------------------ start() called again
\* The thread object created by a later start(): "none" before the call,
\* "created" once start() has returned, "looping" after its first test of
\* is_running succeeded, "exited" once a test failed.
SecondThreadStates == {"none", "created", "looping", "exited"}

InitStartAgain ==
  /\ DisplayFresh
  /\ cfg = IdleCfg
  /\ budget = BudgetInit(LifeHorizon, 0)
  /\ runs = RunsIdle
  /\ probe = [kind |-> "threads", second |-> "none"]
  /\ qlog = QlogInit(Callers, FALSE)
  /\ life \in {LifeInit(cb) : cb \in ExitCallbacks}
  /\ lock_log = LockLogInit(FALSE)

\* start() of a display that has been started before: the only test is the
\* is_running flag, then the flag is set and a new thread is created.
StartAgain ==
  /\ pc # "init"
  /\ life.caller \in {"idle", "stopped"}
  /\ probe.second = "none"
  /\ ~is_running
  /\ is_running' = TRUE
  /\ probe' = [probe EXCEPT !.second = "created"]
  /\ UNCHANGED <<now, pc, last_time, delta_time, command_queue, state,
                 transition, cfg, rendered, events, batch, touch,
                 pending_tap_time, last_effect_time, held, gesture_log, tap_ups,
                 dispatch_log, applied, budget, runs, qlog, cb_threads, life,
                 lock_log>>

\* The while test of the new thread's _display_loop.
SecondThreadTest ==
  /\ probe.second \in {"created", "looping"}
  /\ probe' = [probe EXCEPT !.second = IF is_running THEN "looping" ELSE "exited"]
  /\ probe' # probe
  /\ UNCHANGED <<now, is_running, pc, last_time, delta_time, command_queue,
                 state, transition, cfg, rendered, events, batch, touch,
                 pending_tap_time, last_effect_time, held, gesture_log, tap_ups,
                 dispatch_log, applied, budget, runs, qlog, cb_threads, life,
                 lock_log>>

NextStartAgain ==
  \/ NextLifecycle
  \/ StartAgain
  \/ SecondThreadTest

SpecStartAgain == InitStartAgain /\ [][NextStartAgain]_vars

AliveThreads ==
  (IF ThreadEnded THEN 0 ELSE 1)
  + (IF probe.second \in {"created", "looping"} THEN 1 ELSE 0)

\* C35 as stated: at most one thread running _display_loop is alive at any
\* time.
C35_Original == AliveThreads <= 1

\* ------------------------------------------------ payloads of commands
\* A duration of None and a level that float() cannot convert, written as
\* numbers outside the durations and levels callers pass otherwise; raises
\* tests for them before anything is computed from the payload.
NullDuration == 0 - 1000
NonNumericLevel == 0 - 2000

PayloadDurations == {DefaultDuration, NullDuration}
PayloadLevels == {300, NonNumericLevel}

\* _execute_command raising: max(0.1, None) in start_transition is a TypeError
\* and float() of a non-numeric level is a ValueError.
raises(st, tr, cmd) ==
  CASE cmd.type = "SET_EMOTION" ->
         /\ ~(cmd.emotion = st.current_emotion /\ ~is_transitioning(tr))
         /\ cmd.duration = NullDuration
    [] cmd.type = "SET_SPEAKING" -> cmd.has_level /\ cmd.level = NonNumericLevel
    [] OTHER -> FALSE

\* What the assignments made before the exception leave behind.
execute_command_raising(st, tr, cmd) ==
  IF cmd.type = "SET_EMOTION"
  THEN [state |-> st,
        transition |-> [tr EXCEPT !.from_emotion = st.current_emotion,
                                  !.to_emotion = cmd.emotion]]
  ELSE [state |-> [st EXCEPT !.is_speaking = cmd.active], transition |-> tr]

InitPayload ==
  /\ ProbeFree
  /\ cfg = IdleCfg
  /\ budget = BudgetInit(0, MaxProducerCmds)
  /\ runs = RunsIdle
  /\ probe = ProbeIdle
  /\ qlog = QlogInit(Callers, FALSE)

set_emotion_payload ==
  \E e \in PresetKeys, d \in PayloadDurations : Enqueue(SetEmotionCmd(e, d))

set_speaking_payload ==
  \E a \in BOOLEAN, l \in PayloadLevels : Enqueue(SetSpeakingCmd(a, TRUE, l))

put_apply_effect == Enqueue(ApplyEffectCmd("long_press"))

\* _execute_command returning normally
ExecuteCommandReturns ==
  /\ command_queue # <<>>
  /\ ~raises(state, transition, Head(command_queue))
  /\ ExecuteCommand

\* _execute_command raising: the with statement releases state_lock, neither
\* _process_commands (except queue.Empty only) nor _display_loop catches the
\* exception, and the thread ends with is_running as it was.
ExecuteCommandRaises ==
  /\ pc = "drain"
  /\ command_queue # <<>>
  /\ raises(state, transition, Head(command_queue))
  /\ LET got == get_nowait(command_queue)
         r == execute_command_raising(state, transition, got.cmd)
     IN /\ state' = r.state
        /\ transition' = r.transition
        /\ command_queue' = got.rest
        /\ qlog' = [qlog EXCEPT !.get = Logged(@, <<got.cmd>>)]
  /\ Ops(execute_command_ops)
  /\ pc' = "exited"
  /\ UNCHANGED <<now, is_running, last_time, delta_time, cfg, rendered,
                 events, batch, touch, pending_tap_time, last_effect_time, held,
                 gesture_log, tap_ups, dispatch_log, applied, budget, runs,
                 probe, cb_threads, life>>

NextPayload ==
  \/ Start
  \/ LoopBegin
  \/ LoopTop
  \/ ExecuteCommandReturns
  \/ ExecuteCommandRaises
  \/ ProcessCommandsDone
  \/ CheckGpioExit
  \/ UpdateState
  \/ RenderFrame
  \/ PollEvents
  \/ ClockTick
  \/ set_emotion_payload
  \/ set_speaking_payload
  \/ set_listening
  \/ put_set_petting
  \/ put_apply_effect

SpecPayload == InitPayload /\ [][NextPayload]_vars

\* C36 as stated: once started, the loop thread is alive whenever is_running
\* is true, whatever the payloads of the commands taken from the queue.
C36_Original == is_running => pc # "exited"

\* ------------------------------------------------ presses of the pointer
\* The pointer as the user moves it: a press is a down followed by motion
\* and an up.  pressed: the pointer is down; press: the number of the latest
\* press; tracked: the press whose down filled _touch_start_pos (0: none);
\* up_press and against: the press of the latest classified pointer-up and the
\* press whose down it was classified against.
InitPress ==
  /\ ProbeFree
  /\ cfg = [IdleCfg EXCEPT !.touch = DefaultTouch]
  /\ budget = BudgetInit(TravelHorizon, 0)
  /\ runs = RunsIdle
  /\ qlog = QlogInit(Callers, FALSE)
  /\ probe = [kind |-> "press", pressed |-> FALSE, press |-> 0, tracked |-> 0,
              up_press |-> 0, against |-> 0, calls |-> 0, count |-> 0]

\* The events the pointer can produce next.
PressEvents ==
  IF probe.pressed
  THEN {Event(ty, p, ty = "MOUSEMOTION", 0) :
          ty \in {"MOUSEMOTION", "MOUSEBUTTONUP"}, p \in TravelPositions}
  ELSE {Event("MOUSEBUTTONDOWN", p, FALSE, 0) : p \in TravelPositions}

\* One event of the pointer passed to _handle_touch_event (which returns at
\* once while petting_active is set, as _discard_touch_events drops it).
PressEvent ==
  /\ probe.count < MaxTravelEvents
  /\ \E ev \in PressEvents :
       LET processed == ~state.petting_active
           down == ev.type = "MOUSEBUTTONDOWN"
           up == ev.type = "MOUSEBUTTONUP"
           number == IF down THEN probe.press + 1 ELSE probe.press
           classifies == processed /\ up /\ touch.start_pos # NoPos
       IN /\ down => probe.press < MaxPresses
          /\ SetWorld(handle_touch_event(World, ev, now))
          /\ probe' = [probe EXCEPT
                         !.count = @ + 1,
                         !.pressed = IF down THEN TRUE ELSE IF up THEN FALSE ELSE @,
                         !.press = number,
                         !.tracked = IF ~processed THEN @
                                     ELSE IF down THEN number
                                     ELSE IF up THEN 0
                                     ELSE @,
                         !.up_press = IF classifies THEN number ELSE @,
                         !.against = IF classifies THEN probe.tracked ELSE @,
                         !.calls = IF classifies THEN @ + 1 ELSE @]
  /\ UNCHANGED <<now, is_running, pc, last_time, delta_time, transition, cfg,
                 rendered, batch, held, applied, budget, runs, life, lock_log>>

NextPress ==
  \/ PressEvent
  \/ TravelPetting
  \/ TravelWait

SpecPress == InitPress /\ [][NextPress]_vars

\* C37 as stated: every classified pointer-up is classified against the down
\* of its own press.
C37_Original == probe.up_press = probe.against

\* ------------------------------------------------ transitions out of sight
HiddenHorizon == 2

\* The procedural display and the sprite displays whose sprites were loaded.
InitHidden ==
  /\ ProbeFree
  /\ cfg \in {c \in Configs : /\ ~c.effect_callback
                              /\ c.touch = DefaultTouch
                              /\ (c.procedural \/ c.emotion_images # {})}
  /\ budget = BudgetInit(HiddenHorizon, MaxCmds)
  /\ runs = RunsIdle
  /\ probe = ProbeIdle
  /\ qlog = QlogInit(Callers, TRUE)

\* set_listening(True) and set_speaking(True): the calls that hide a transition
set_listening_on == Enqueue(SetListeningCmd(TRUE))

set_speaking_on == Enqueue(SetSpeakingCmd(TRUE, FALSE, 0))

\* The loop, the clock, and callers of set_emotion and of the two calls above.
NextHidden ==
  \/ Start
  \/ LoopBegin
  \/ LoopTop
  \/ ExecuteCommand
  \/ ProcessCommandsDone
  \/ CheckGpioExit
  \/ UpdateState
  \/ RenderFrame
  \/ PollEvents
  \/ ClockTick
  \/ AdvanceTime
  \/ set_emotion
  \/ set_listening_on
  \/ set_speaking_on

SpecHidden == InitHidden /\ [][NextHidden]_vars

\* C38: while is_listening or is_speaking is set, every tick's _update_state
\* still adds the tick's delta to an active transition's elapsed time, and
\* once the elapsed time has reached the duration the transition ends and
\* current_emotion becomes its to_emotion; the frames drawn for the listening
\* pose and for procedural speaking meanwhile are no cross-fade.
C38_Hidden ==
  [][/\ (/\ pc = "update"
         /\ pc' = "render"
         /\ transition.is_active
         /\ (state.is_listening \/ state.is_speaking)) =>
          LET e == transition.elapsed_time + delta_time
          IN IF e >= transition.duration
             THEN /\ ~transition'.is_active
                  /\ state'.current_emotion = transition.to_emotion
                  /\ state'.target_emotion = None
             ELSE /\ transition'.is_active
                  /\ transition'.elapsed_time = e
                  /\ state'.current_emotion = state.current_emotion
     /\ (/\ RenderStep
         /\ transition.is_active
         /\ \/ state.is_listening /\ (cfg.procedural \/ cfg.listening_image)
            \/ state.is_speaking /\ cfg.procedural) =>
          /\ rendered'.b = None
          /\ rendered'.alpha = 0]_vars

\* Listening was switched on, then SET_EMOTION sad was applied; the
\* transition advanced over more than one tick with listening on, and the
\* update of the last one has just committed sad.
C38_Witness ==
  /\ \E d \in Durations :
       qlog.get = <<SetListeningCmd(TRUE), SetEmotionCmd("sad", d)>>
  /\ pc = "render"
  /\ state.is_listening
  /\ state.current_emotion = "sad"
  /\ state.target_emotion = None
  /\ ~transition.is_active
  /\ transition.elapsed_time >= transition.duration
  /\ delta_time > 0
  /\ delta_time < transition.elapsed_time

\* ------------------------------------------------ calls that dispatch nothing
\* C39: a call of _trigger_gesture_effect that dispatches no effect (one of
\* the three rejections, no configured effect, or the effect-cooldown
\* suppression) leaves petting_active with the value it had when the call
\* began.
C39_LockAsOnEntry ==
  [][(TriggerStep /\ dispatch_log' = dispatch_log) =>
       state'.petting_active = state.petting_active]_vars

\* A tap was dispatched, the lock was released, and a second tap 2 s later
\* passed the three rejections and was suppressed by the effect cooldown of
\* 3 s: the busy window was set again and the lock is not set.
C39_Witness ==
  /\ probe.kind = "arbitrate"
  /\ probe.tries = <<Try("tap", Epoch), Try("tap", Epoch + 40)>>
  /\ Len(dispatch_log) = 1
  /\ last_effect_time = Epoch
  /\ state.last_gesture_time = Epoch + 40
  /\ state.gesture_busy_until = Epoch + 40 + cfg.touch.effect_busy
  /\ ~state.petting_active

====
